---- MODULE Spec2Model ----
(***************************************************************************)
(* Job engine of the bulk import/export service: the Redis lease service   *)
(* (DistributedLockService), the job row and its atomic primitives         *)
(* (atomicStatusTransition, finalizeJob, updateJobProgress), the worker    *)
(* orchestrator (processImport / processExport, which have the same        *)
(* shape) and the stale-job sweep (StaleJobCleanupService).                *)
(*                                                                         *)
(* One job row is modelled; nodes are numbered 1..NumNodes, 0 stands for   *)
(* SQL NULL / no node.  The remaining life of a lease is counted in        *)
(* renewal intervals of that lease (ttlMs / 2), the age of started_at and  *)
(* locked_at in units of the configured thresholds; the clocks of distinct *)
(* leases and of the row are not synchronised.                             *)
(***************************************************************************)
EXTENDS Integers, FiniteSets, Sequences, TLC

\* ---------------------------------------------------------------- bounds
NumNodes == 2
MaxDeliveries == 2
\* crashes, transport errors of a renewal, database errors of a finalize,
\* cancellations and admin calls
MaxEvents == 1
NumBatches == 1
\* create-import requests and the idempotency keys they carry
NumRequests == 2
NumIdemKeys == 1
\* job.batchSize is configuration (default 1000); the model runs with a small
\* configured value. An input file has at most MaxBatches batches, of which
\* at most MaxDirty hold rows that are not imported cleanly.
BatchSize == 70
MaxBatches == 10
MaxDirty == 2
MaxRestarts == 1
\* callers of the lock service that run in one process on one key
NumTasks == 3
\* an imported file of domain rows: its rows, and the ids, unique keys
\* (email, slug) and field values the rows draw from
MaxRows == 2
NumClientIds == 2
NumRowKeys == 2
NumRowVals == 2
\* an exported table of up to MaxExportRows rows whose created_at is one of
\* NumTimes instants, read in pages of PageSize rows
MaxExportRows == 3
MaxProgressRows == 4
NumTimes == 2
PageSize == 2
\* hours the clock advances while an export job is looked at
MaxNow == 2
\* row errors recorded for one job, and the length of a UUID string
MaxListed == 2
UuidChars == 36
\* job.staleThresholdMs and job.staleLockThresholdMs are configuration; the
\* model runs with small configured values.
StaleThreshold == 1
StaleLockThreshold == 1

\* ------------------------------------------------------ program constants
\* DEFAULT_RETRIES
DefaultRetries == 3
\* a lease lasts two renewal intervals: Math.floor(ttlMs / 2)
TtlUnits == 2
\* private readonly maxErrors = 100
MaxErrors == 100
DownloadUrlExpiryHours == 24
RefreshHours == 1
TruncateAt == 100
KeyMaxLength == 255
\* if (batchNumber % 10 === 0) updateJobProgress(...)
ProgressEvery == 10

Nodes == 1 .. NumNodes
NoNode == 0
JobKey == "import-job"
CleanupKey == "stale-job-cleanup"
Keys == {JobKey, CleanupKey}

PENDING == "pending"
PROCESSING == "processing"
COMPLETED == "completed"
FAILED == "failed"
CANCELLED == "cancelled"
Terminal == {COMPLETED, FAILED, CANCELLED}

NoToken == [node |-> NoNode, seq |-> 0]
NoKey == [token |-> NoToken, pttl |-> 0]
NullAge == -1
NoMessage == [kind |-> "null", lockedBy |-> NoNode]
NoVerdict == [success |-> FALSE, kind |-> "none", status |-> "none", epoch |-> 0]
NoSnap == [found |-> FALSE, status |-> "none", lockedBy |-> NoNode]

Requests == 1 .. NumRequests
IdemKeys == 1 .. NumIdemKeys
NoIdemKey == 0
NoId == 0
NoRecord == [exists |-> FALSE, idempotencyKey |-> NoIdemKey, status |-> "none",
             fileUrl |-> FALSE]
NoRequest == [idempotencyKey |-> NoIdemKey, kind |-> "none", valid |-> FALSE]

Formats == {"csv", "ndjson", "json"}
ZeroCounters == [totalRows |-> 0, processedRows |-> 0, successfulRows |-> 0,
                 failedRows |-> 0, skippedRows |-> 0, errors |-> 0]
\* the counters and errors of a job row as createImportFromFile inserts it
\* a row of export_jobs as createExport stores it
NewExportJob ==
    [status |-> PENDING, fileName |-> FALSE, downloadUrl |-> NullAge,
     expiresAt |-> NullAge, exportedRows |-> 0, lockedBy |-> NoNode,
     errorMessage |-> FALSE]

NewJobRow(st) ==
    [status |-> st, totalRows |-> 0, processedRows |-> 0, successfulRows |-> 0,
     failedRows |-> 0, skippedRows |-> 0, errors |-> 0, errorMessage |-> "none"]

VARIABLES
    redis,          \* key -> [token, pttl]; pttl = 0: the key does not exist
    activeLocks,    \* node -> key -> token whose renewal timer is running
    alive,          \* node -> the process is running
    job,            \* the job row
    rowLock,        \* node whose transition transaction holds the row lock
    pc,             \* node -> position of its worker in processImport
    wlock,          \* node -> the Lock held by the worker (local variable)
    verdict,        \* node -> result of the worker's last transition call
    batches,        \* node -> batches the running pipeline has processed
    thrown,         \* node -> the error processImport is throwing to the queue
    spc,            \* node -> position of its sweep in cleanupStaleJobs
    slock,          \* node -> the Lock held by the sweep
    ssnap,          \* node -> the job as read by the sweep's queries
    fpc,            \* position of the admin call forceCleanupImportJob
    fsnap,          \* the job as read by forceCleanupImportJob
    restartStaleJobs, \* job.restartStaleJobs
    domainWrites,   \* batches committed to the domain tables
    hist,           \* counters of what has happened (see Init)
    lpc,            \* node -> position of a direct caller of the lock service
    attempt,        \* node -> the attempt and the retries of its acquireLock
    lret,           \* node -> what the lock service last returned to it
    importJobs,     \* id -> row of the import_jobs table
    storage,        \* ids of the jobs whose file is in object storage
    importQueue,    \* ids of the jobs added to the import queue
    cpc,            \* request -> position of its create-import call
    creq,           \* request -> what the request carries
    cres,           \* request -> id of the job in its response
    fileFormat,     \* jobData.fileFormat of the import being run
    numBatches,     \* batches the input file splits into
    lastSize,       \* rows of the file's last batch
    ppc,            \* position of executeImportProcessing
    batchNumber,    \* batches the stream loop has handled
    dirtyUsed,      \* batches so far that held rows not imported cleanly
    counters,       \* the loop's local counters and the length of `errors`
    jobRow,         \* the counters, errors and status persisted on the job
    ghost,          \* row errors and failing rows the input really had
    content,        \* what the bytes of a JSON file parse to
    restarts,       \* times the job was put back to PENDING and run again
    resourceType,   \* users, articles or comments: the table a file targets
    file,           \* the validated records of the imported file, in order
    table,          \* the rows of that domain table
    uuids,          \* ids uuidv4() has generated
    imports,        \* completed imports of the file
    afterFirst,     \* the table as the first import left it
    lastResult,     \* what the last import's upsert returned
    exportRows,     \* the rows of the table an export reads
    epc,            \* position of executeExportProcessing
    exportTotal,    \* totalRows, the result of the export's count query
    offset,         \* streamRecords: offset of the next page
    emitted,        \* ids of the records written to the export, in order
    exportJob,      \* a row of the export_jobs table
    now,            \* the clock, in hours
    gpc,            \* position of a getJob call on that row
    gsnap,          \* the entity getJob's findOne returned
    esnap,          \* the row as read by the stale sweep's query
    jobErrors,      \* the entries pushed to a job's errors list
    wpc,            \* node -> position of its withLock call
    fnRan,          \* node -> fn was started by the running withLock call
    fnOutcome,      \* node -> how fn ended: its value or the error it threw
    wres,           \* node -> what its last withLock call returned or threw
    spRecords,      \* upsertUsers: line -> the error the save of that record raises
    spLine,         \* upsertUsers: line of the record the loop handles next
    spTx,           \* the batch transaction: its rows, savepoints and aborted flag
    spDb,           \* lines whose rows are committed in the domain table
    spCount,        \* upsertRecords: successful, failed and the rows of errors
    spPos,          \* position of upsertRecords
    tableRows,      \* rows the export's query matches
    streamOffset,   \* streamRecords: offset
    hasMore,        \* streamRecords: hasMore; FALSE once output.end() was called
    buffered,       \* records written to the PassThrough and not yet read downstream
    uploaded,       \* records the encoder and the upload have taken
    raised,         \* node -> the last Redis command of its lock-service call was rejected
    tpc,            \* task -> position of a caller of the lock service inside one process
    tlock,          \* task -> the Lock that acquireLock returned to it
    failedRenewals, \* tokens whose own extendLock returned false
    dpc,            \* node -> position of its onModuleDestroy
    dread,          \* node -> the token releaseLockByKey read with GET
    xjob,           \* the export job row executeExportProcessing works on
    xpc,            \* position of executeExportProcessing
    metricsCount,   \* MetricsTransform.count
    progressWrites  \* values of the onMetrics updates sent and not yet applied

vars == <<redis, activeLocks, alive, job, rowLock, pc, wlock, verdict,
          batches, thrown, spc, slock, ssnap, fpc, fsnap, restartStaleJobs,
          domainWrites, hist, lpc, attempt, lret,
          importJobs, storage, importQueue, cpc, creq, cres,
          fileFormat, numBatches, lastSize, ppc, batchNumber, dirtyUsed,
          counters, jobRow, ghost, content, restarts,
          resourceType, file, table, uuids, imports, afterFirst, lastResult,
          exportRows, epc, exportTotal, offset, emitted,
          exportJob, now, gpc, gsnap, esnap, jobErrors,
          wpc, fnRan, fnOutcome, wres,
          spRecords, spLine, spTx, spDb, spCount, spPos,
          tableRows, streamOffset, hasMore, buffered, uploaded,
          raised,
          tpc, tlock, failedRenewals,
          dpc, dread,
          xjob, xpc, metricsCount, progressWrites>>

lockVars == <<redis, activeLocks>>
workerVars == <<pc, wlock, verdict, batches, thrown>>
sweepVars == <<spc, slock, ssnap>>
forceVars == <<fpc, fsnap>>
clientVars == <<lpc, attempt, lret>>
createVars == <<importJobs, storage, importQueue, cpc, creq, cres>>
pipeVars == <<fileFormat, numBatches, lastSize, ppc, batchNumber, dirtyUsed,
              counters, jobRow, ghost, content, restarts>>
upsertVars == <<resourceType, file, table, uuids, imports, afterFirst, lastResult>>
exportVars == <<exportRows, epc, exportTotal, offset, emitted>>
getVars == <<exportJob, now, gpc, gsnap, esnap>>
errorVars == <<jobErrors>>
withVars == <<wpc, fnRan, fnOutcome, wres>>
savepointVars == <<spRecords, spLine, spTx, spDb, spCount, spPos>>
streamVars == <<tableRows, streamOffset, hasMore, buffered, uploaded>>
transportVars == <<raised>>
taskVars == <<tpc, tlock, failedRenewals>>
destroyVars == <<dpc, dread>>
progressVars == <<xjob, xpc, metricsCount, progressWrites>>
\* what the job engine leaves alone
notEngine == <<clientVars, createVars, pipeVars, upsertVars, exportVars, getVars,
               errorVars, withVars, savepointVars, streamVars, transportVars,
               taskVars, destroyVars, progressVars>>
\* what a direct caller of the lock service leaves alone
notLock == <<job, rowLock, pc, verdict, batches, thrown, sweepVars, forceVars,
             restartStaleJobs, domainWrites, createVars, pipeVars, upsertVars,
             exportVars, getVars, errorVars, withVars, savepointVars,
             streamVars, transportVars, taskVars, destroyVars, progressVars>>
\* what a create-import request leaves alone
notCreate == <<lockVars, alive, job, rowLock, workerVars, sweepVars, forceVars,
               restartStaleJobs, domainWrites, hist, clientVars, pipeVars,
               upsertVars, exportVars, getVars, errorVars, withVars,
               savepointVars, streamVars, transportVars, taskVars, destroyVars,
               progressVars>>
\* what the stream loop of an import leaves alone
notPipe == <<lockVars, alive, job, rowLock, workerVars, sweepVars, forceVars,
             restartStaleJobs, domainWrites, hist, clientVars, createVars,
             upsertVars, exportVars, getVars, errorVars, withVars,
             savepointVars, streamVars, transportVars, taskVars, destroyVars,
             progressVars>>
\* what the upsert of a batch leaves alone
notUpsert == <<lockVars, alive, job, rowLock, workerVars, sweepVars, forceVars,
               restartStaleJobs, domainWrites, hist, clientVars, createVars,
               pipeVars, exportVars, getVars, errorVars, withVars,
               savepointVars, streamVars, transportVars, taskVars, destroyVars,
               progressVars>>
\* what an export leaves alone
notExport == <<lockVars, alive, job, rowLock, workerVars, sweepVars, forceVars,
               restartStaleJobs, domainWrites, hist, clientVars, createVars,
               pipeVars, upsertVars, getVars, errorVars, withVars,
               savepointVars, streamVars, transportVars, taskVars, destroyVars,
               progressVars>>
\* what getJob on an export job leaves alone
notGet == <<lockVars, alive, job, rowLock, workerVars, sweepVars, forceVars,
            restartStaleJobs, domainWrites, hist, clientVars, createVars,
            pipeVars, upsertVars, exportVars, errorVars, withVars,
            savepointVars, streamVars, transportVars, taskVars, destroyVars,
            progressVars>>
\* what recording a row error leaves alone
notErrors == <<lockVars, alive, job, rowLock, workerVars, sweepVars, forceVars,
               restartStaleJobs, domainWrites, hist, clientVars, createVars,
               pipeVars, upsertVars, exportVars, getVars, withVars,
               savepointVars, streamVars, transportVars, taskVars, destroyVars,
               progressVars>>

\* ------------------------------------------------------------ lock service
Ttl(k) == TtlUnits

Exists(k) == redis[k].pttl > 0

\* redis.set(lockKey, token, 'PX', ttlMs, 'NX') === 'OK'
SetOk(k) == TRUE
SetNxOk(k) == ~Exists(k)

\* `${this.nodeId}:${uuidv4()}`: a token of node n that no lease, timer or
\* Lock object holds
SeqsInUse(n) ==
    LET held == {redis[k].token : k \in Keys}
                  \cup {activeLocks[n][k] : k \in Keys} \cup {wlock[n], slock[n]}
    IN  {t.seq : t \in {u \in held : u.node = n}}
NewToken(n) ==
    [node |-> n,
     seq |-> CHOOSE s \in 1 .. (2 * Cardinality(Keys) + 3) :
               s \notin SeqsInUse(n) /\ \A t \in 1 .. (s - 1) : t \in SeqsInUse(n)]

\* acquireLock after 'OK': the token is stored with its expiry and the
\* renewal timer is started (activeLocks.set(lock.key, intervalId)).
AcquiredState(n, k) ==
    /\ redis' = [redis EXCEPT ![k] = [token |-> NewToken(n), pttl |-> Ttl(k)]]
    /\ activeLocks' = [activeLocks EXCEPT ![n][k] = NewToken(n)]

\* the Lua script of releaseLock: delete only if the stored value is the token
ReleaseScriptBad(k, tok) ==
    IF Exists(k) THEN [redis EXCEPT ![k] = NoKey] ELSE redis
ReleaseScriptNever(k, tok) == redis
ReleaseScript(k, tok) ==
    IF Exists(k) /\ redis[k].token = tok THEN [redis EXCEPT ![k] = NoKey] ELSE redis

\* the Lua script of extendLock: pexpire only if the stored value is the token
ExtendScript(k, tok) ==
    IF Exists(k) /\ redis[k].token = tok THEN [redis EXCEPT ![k].pttl = Ttl(k)] ELSE redis

ScriptResult(k, tok) == IF Exists(k) /\ redis[k].token = tok THEN 1 ELSE 0

\* releaseLock(lock): stopLockRenewal(lock.key), then the script
ReleasedState(n, k, tok) ==
    /\ activeLocks' = [activeLocks EXCEPT ![n][k] = NoToken]
    /\ redis' = ReleaseScript(k, tok)

\* ------------------------------------------------------------ the job row
NewJob ==
    [status |-> PENDING, lockedBy |-> NoNode, lockedAge |-> NullAge,
     startedAge |-> NullAge, completedAt |-> FALSE, errorMessage |-> NoMessage,
     processedRows |-> 0]

\* atomicStatusTransition: `job.status !== fromStatus` under the row lock
StatusMatchesAny(row, fromStatus) == TRUE
StatusMatches(row, fromStatus) == row.status = fromStatus

\* { lockedBy: nodeId, lockedAt: new Date(), startedAt: new Date() } and
\* job.status = toStatus
TransitionUpdates(row, toStatus, n) ==
    [row EXCEPT !.status = toStatus, !.lockedBy = n, !.lockedAge = 0, !.startedAge = 0]

\* the reason of a rejected transition: `Job status is X, expected Y`, or the
\* message of the error the transaction raised
StatusReason(row) ==
    [success |-> FALSE, kind |-> "status", status |-> row.status, epoch |-> 0]
ErrorReason ==
    [success |-> FALSE, kind |-> "error", status |-> "none", epoch |-> 0]

\* the updates finalizeJob is called with by executeImportProcessing
FinalUpdatesKeepLock(row, status, processed) ==
    [row EXCEPT !.status = status, !.processedRows = processed, !.completedAt = TRUE]
FinalUpdates(row, status, processed) ==
    IF status = COMPLETED
    THEN [row EXCEPT !.status = status, !.processedRows = processed,
                     !.completedAt = TRUE, !.lockedBy = NoNode, !.lockedAge = NullAge]
    ELSE [row EXCEPT !.status = status,
                     !.errorMessage = [kind |-> "fatal", lockedBy |-> NoNode],
                     !.completedAt = TRUE, !.lockedBy = NoNode, !.lockedAge = NullAge]

\* finalizeJob: under the row lock, `job.status !== PROCESSING` returns
\* without writing; the caller's node id is not compared with locked_by
FinalizeUnguarded(row, n, status, processed) == FinalUpdates(row, status, processed)
Finalize(row, n, status, processed) ==
    IF row.status # PROCESSING THEN row ELSE FinalUpdates(row, status, processed)

\* updateJobProgress: repository.update(jobId, counters)
ProgressWrite(row, processed) == [row EXCEPT !.processedRows = processed]

\* the two queries of cleanupStaleImportJobs
StaleProcessing(row) ==
    row.status = PROCESSING /\ row.startedAge > StaleThreshold
StaleLocked(row) ==
    /\ row.lockedBy # NoNode
    /\ row.lockedAge > StaleLockThreshold
    /\ row.status \in {PENDING, PROCESSING}

\* allStaleJobs is not empty
IsStale(row) == StaleProcessing(row) \/ StaleLocked(row)

Snapshot(row) == [found |-> TRUE, status |-> row.status, lockedBy |-> row.lockedBy]

\* handleStaleImportJob(job): repository.update(job.id, ...) chosen from the
\* job object read earlier; the row's current status is not looked at
RestartBranchAlways(snap) == snap.status = PROCESSING
RestartBranch(snap) == restartStaleJobs /\ snap.status = PROCESSING
HandleStaleNoHolder(row, snap) ==
    IF RestartBranch(snap)
    THEN [row EXCEPT !.status = PENDING, !.lockedBy = NoNode, !.lockedAge = NullAge,
                     !.startedAge = NullAge,
                     !.errorMessage = [kind |-> "reset", lockedBy |-> NoNode]]
    ELSE [row EXCEPT !.status = FAILED, !.lockedBy = NoNode, !.lockedAge = NullAge,
                     !.completedAt = TRUE,
                     !.errorMessage = [kind |-> "stale", lockedBy |-> row.lockedBy]]
HandleStale(row, snap) ==
    IF RestartBranch(snap)
    THEN [row EXCEPT !.status = PENDING, !.lockedBy = NoNode, !.lockedAge = NullAge,
                     !.startedAge = NullAge,
                     !.errorMessage = [kind |-> "reset", lockedBy |-> NoNode]]
    ELSE [row EXCEPT !.status = FAILED, !.lockedBy = NoNode, !.lockedAge = NullAge,
                     !.completedAt = TRUE,
                     !.errorMessage = [kind |-> "stale", lockedBy |-> snap.lockedBy]]

\* forceCleanupImportJob: `job.status === PROCESSING || job.lockedBy`
ForceApplies(row) == row.status = PROCESSING \/ row.lockedBy # NoNode

\* A statement gets the row lock when no transaction holds it and none is
\* queued for it.
RowFree == rowLock = NoNode /\ \A m \in Nodes : pc[m] \notin {"blocked", "blocked_dirty"}

\* The transaction of node n commits an update of the row: transactions whose
\* SELECT ... FOR UPDATE is waiting for the row lock took their snapshot
\* before this commit.
Dirtied(n) == [m \in Nodes |-> IF m # n /\ pc[m] = "blocked" THEN "blocked_dirty" ELSE pc[m]]

NoError == "none"
NoReturn == [value |-> "none", refused |-> FALSE]

\* ------------------------------------------------------------------- Init
InitShared ==
    /\ attempt = [n \in Nodes |-> [done |-> 0, retries |-> 0]]
    /\ lret = [n \in Nodes |-> NoReturn]
    /\ redis = [k \in Keys |-> NoKey]
    /\ activeLocks = [n \in Nodes |-> [k \in Keys |-> NoToken]]
    /\ alive = [n \in Nodes |-> TRUE]
    /\ job = NewJob
    /\ rowLock = NoNode
    /\ pc = [n \in Nodes |-> "idle"]
    /\ wlock = [n \in Nodes |-> NoToken]
    /\ verdict = [n \in Nodes |-> NoVerdict]
    /\ batches = [n \in Nodes |-> 0]
    /\ thrown = [n \in Nodes |-> NoError]
    /\ spc = [n \in Nodes |-> "idle"]
    /\ slock = [n \in Nodes |-> NoToken]
    /\ ssnap = [n \in Nodes |-> NoSnap]
    /\ fpc = "idle"
    /\ fsnap = NoSnap
    /\ domainWrites = 0
    /\ hist = [deliveries |-> 0, events |-> 0,
               transitions |-> 0, resets |-> 0, pipelines |-> 0]
    /\ importJobs = [i \in Requests |-> NoRecord]
    /\ storage = {}
    /\ importQueue = {}
    /\ cpc = [r \in Requests |-> "idle"]
    /\ creq = [r \in Requests |-> NoRequest]
    /\ cres = [r \in Requests |-> NoId]
    /\ batchNumber = 0
    /\ dirtyUsed = 0
    /\ counters = ZeroCounters
    /\ ghost = [errors |-> 0, failures |-> 0, rowFailures |-> 0]
    /\ restarts = 0
    /\ table = {}
    /\ uuids = 0
    /\ imports = 0
    /\ afterFirst = {}
    /\ jobErrors = <<>>
    /\ lastResult = [table |-> {}, uuids |-> 0, successful |-> 0, failed |-> 0,
                      errors |-> {}]
    /\ wpc = [n \in Nodes |-> "idle"]
    /\ fnRan = [n \in Nodes |-> FALSE]
    /\ fnOutcome = [n \in Nodes |-> "none"]
    /\ wres = [n \in Nodes |-> "none"]
    /\ spRecords = <<>>
    /\ spLine = 1
    /\ spTx = [rows |-> {}, savepoints |-> {}, aborted |-> FALSE]
    /\ spDb = {}
    /\ spCount = [successful |-> 0, failed |-> 0, errors |-> <<>>]
    /\ spPos = "idle"
    /\ tableRows = 0
    /\ streamOffset = 0
    /\ hasMore = FALSE
    /\ buffered = 0
    /\ uploaded = 0
    /\ raised = [n \in Nodes |-> FALSE]
    /\ tpc = [t \in 1 .. NumTasks |-> "idle"]
    /\ tlock = [t \in 1 .. NumTasks |-> NoToken]
    /\ failedRenewals = {}
    /\ dpc = [n \in Nodes |-> "running"]
    /\ dread = [n \in Nodes |-> NoToken]
    /\ xjob = [status |-> PROCESSING, totalRows |-> 0, exportedRows |-> 0]
    /\ xpc = "count"
    /\ metricsCount = 0
    /\ progressWrites = {}

\* no file of domain rows is being imported
InitNoUpsert ==
    /\ resourceType = "users"
    /\ file = <<>>

\* no import stream is being followed
InitNoGet ==
    /\ exportJob = NewExportJob
    /\ now = 0
    /\ gpc = "unused"
    /\ gsnap = NoSnap
    /\ esnap = NoSnap

InitNoExport ==
    /\ exportRows = {}
    /\ epc = "unused"
    /\ exportTotal = 0
    /\ offset = 0
    /\ emitted = <<>>

InitNoPipe ==
    /\ fileFormat = "csv"
    /\ content = "array"
    /\ numBatches = 0
    /\ lastSize = 0
    /\ ppc = "unused"
    /\ jobRow = NewJobRow(PENDING)

\* the job engine: no caller uses the lock service directly
Init ==
    /\ InitNoPipe
    /\ InitNoUpsert
    /\ InitNoExport
    /\ InitNoGet
    /\ lpc = [n \in Nodes |-> "unused"]
    /\ restartStaleJobs \in BOOLEAN
    /\ InitShared

\* ------------------------------------------------- worker: processImport
\* The queue delivers the job to node n: acquireLock(lockKey, {retries: 0});
\* `if (!lock) return`.
Deliver(n) ==
    /\ alive[n] /\ pc[n] = "idle"
    /\ hist.deliveries < MaxDeliveries
    /\ hist' = [hist EXCEPT !.deliveries = @ + 1]
    /\ IF SetNxOk(JobKey)
       THEN /\ AcquiredState(n, JobKey)
            /\ wlock' = [wlock EXCEPT ![n] = NewToken(n)]
            /\ pc' = [pc EXCEPT ![n] = "transition"]
       ELSE UNCHANGED <<lockVars, wlock, pc>>
    /\ UNCHANGED <<alive, job, rowLock, verdict, batches, thrown, sweepVars, forceVars,
                   restartStaleJobs, domainWrites>>
    /\ UNCHANGED notEngine

\* atomicStatusTransition: startTransaction('SERIALIZABLE'), then the
\* SELECT ... FOR UPDATE takes the row lock or waits for it.
TransitionSelect(n) ==
    /\ alive[n] /\ pc[n] = "transition"
    /\ IF RowFree
       THEN /\ rowLock' = n
            /\ pc' = [pc EXCEPT ![n] = "txn"]
       ELSE /\ pc' = [pc EXCEPT ![n] = "blocked"]
            /\ UNCHANGED rowLock
    /\ UNCHANGED <<lockVars, alive, job, wlock, verdict, batches, thrown, sweepVars,
                   forceVars, restartStaleJobs, domainWrites, hist>>
    /\ UNCHANGED notEngine

\* The row lock is free again.  A SERIALIZABLE transaction whose row was
\* updated by a transaction that committed after its snapshot fails with a
\* serialization error; the catch block returns it as {success: false,
\* reason: message}.
TransitionResume(n) ==
    /\ alive[n] /\ pc[n] \in {"blocked", "blocked_dirty"}
    /\ rowLock = NoNode
    /\ IF pc[n] = "blocked_dirty"
       THEN /\ verdict' = [verdict EXCEPT ![n] = [ErrorReason EXCEPT !.epoch = hist.resets]]
            /\ pc' = [pc EXCEPT ![n] = "release"]
            /\ UNCHANGED rowLock
       ELSE /\ rowLock' = n
            /\ pc' = [pc EXCEPT ![n] = "txn"]
            /\ UNCHANGED verdict
    /\ UNCHANGED <<lockVars, alive, job, wlock, batches, thrown, sweepVars,
                   forceVars, restartStaleJobs, domainWrites, hist>>
    /\ UNCHANGED notEngine

\* The status check, save and commit (or rollback) of atomicStatusTransition,
\* and what processImport does with the result: return (to the finally
\* block) or executeImportProcessing(job, jobData).
TransitionCommit(n) ==
    /\ alive[n] /\ pc[n] = "txn" /\ rowLock = n
    /\ rowLock' = NoNode
    /\ IF StatusMatches(job, PENDING)
       THEN /\ job' = TransitionUpdates(job, PROCESSING, n)
            /\ verdict' = [verdict EXCEPT ![n] =
                   [success |-> TRUE, kind |-> "ok", status |-> "none", epoch |-> hist.resets]]
            /\ pc' = [Dirtied(n) EXCEPT ![n] = "pipeline"]
            /\ batches' = [batches EXCEPT ![n] = 0]
            /\ hist' = [hist EXCEPT !.transitions = @ + 1, !.pipelines = @ + 1]
       ELSE /\ verdict' = [verdict EXCEPT ![n] = [StatusReason(job) EXCEPT !.epoch = hist.resets]]
            /\ pc' = [pc EXCEPT ![n] = "release"]
            /\ UNCHANGED <<job, batches, hist>>
    /\ UNCHANGED <<lockVars, alive, wlock, thrown, sweepVars, forceVars,
                   restartStaleJobs, domainWrites>>
    /\ UNCHANGED notEngine

\* One batch of the pipeline: upsertRecords commits its transaction.
PipelineBatch(n) ==
    /\ alive[n] /\ pc[n] = "pipeline"
    /\ batches[n] < NumBatches
    /\ batches' = [batches EXCEPT ![n] = @ + 1]
    /\ domainWrites' = domainWrites + 1
    /\ pc' = [pc EXCEPT ![n] = "progress"]
    /\ UNCHANGED <<lockVars, alive, job, rowLock, wlock, verdict, thrown, sweepVars,
                   forceVars, restartStaleJobs, hist>>
    /\ UNCHANGED notEngine

\* updateJobProgress after the batch
ProgressUpdate(n) ==
    /\ alive[n] /\ pc[n] = "progress"
    /\ RowFree
    /\ job' = ProgressWrite(job, batches[n])
    /\ pc' = [pc EXCEPT ![n] = "pipeline"]
    /\ UNCHANGED <<lockVars, alive, rowLock, wlock, verdict, batches, thrown, sweepVars,
                   forceVars, restartStaleJobs, domainWrites, hist>>
    /\ UNCHANGED notEngine

\* The stream is exhausted: finalizeJob(job.id, COMPLETED, ...)
FinalizeCompleted(n) ==
    /\ alive[n] /\ pc[n] = "pipeline"
    /\ batches[n] = NumBatches
    /\ RowFree
    /\ job' = Finalize(job, n, COMPLETED, batches[n])
    /\ pc' = [pc EXCEPT ![n] = "release"]
    /\ UNCHANGED <<lockVars, alive, rowLock, wlock, verdict, batches, thrown, sweepVars,
                   forceVars, restartStaleJobs, domainWrites, hist>>
    /\ UNCHANGED notEngine

\* The pipeline raises a fatal error: finalizeJob(job.id, FAILED, ...), then
\* `throw error`.
FinalizeFailed(n) ==
    /\ alive[n] /\ pc[n] = "pipeline"
    /\ RowFree
    /\ job' = Finalize(job, n, FAILED, batches[n])
    /\ thrown' = [thrown EXCEPT ![n] = "pipeline"]
    /\ pc' = [pc EXCEPT ![n] = "release"]
    /\ UNCHANGED <<lockVars, alive, rowLock, wlock, verdict, batches, sweepVars,
                   forceVars, restartStaleJobs, domainWrites, hist>>
    /\ UNCHANGED notEngine

\* finalizeJob itself raises (the database fails, the row is gone): its catch
\* block rolls back and rethrows, so the row is unchanged and the error of
\* finalizeJob is what processImport throws.
FinalizeRaises(n) ==
    /\ alive[n] /\ pc[n] = "pipeline"
    /\ hist.events < MaxEvents
    /\ hist' = [hist EXCEPT !.events = @ + 1]
    /\ thrown' = [thrown EXCEPT ![n] = "finalize"]
    /\ pc' = [pc EXCEPT ![n] = "release"]
    /\ UNCHANGED <<lockVars, alive, job, rowLock, wlock, verdict, batches, sweepVars,
                   forceVars, restartStaleJobs, domainWrites>>
    /\ UNCHANGED notEngine

\* finally { releaseLock(lock) }; processImport returns or rethrows.
ReleaseLock(n) ==
    /\ alive[n] /\ pc[n] = "release"
    /\ ReleasedState(n, JobKey, wlock[n])
    /\ wlock' = [wlock EXCEPT ![n] = NoToken]
    /\ thrown' = [thrown EXCEPT ![n] = NoError]
    /\ batches' = [batches EXCEPT ![n] = 0]
    /\ pc' = [pc EXCEPT ![n] = "idle"]
    /\ verdict' = [verdict EXCEPT ![n] = NoVerdict]
    /\ UNCHANGED <<alive, job, rowLock, sweepVars, forceVars,
                   restartStaleJobs, domainWrites, hist>>
    /\ UNCHANGED notEngine

\* ------------------------------------------------------- lease renewal
\* redis.eval rejects (transport error): extendLock catches it and returns
\* false, so the renewal is stopped although the lease is still stored.
RenewLockError(n, k) ==
    /\ alive[n]
    /\ activeLocks[n][k] # NoToken
    /\ hist.events < MaxEvents
    /\ hist' = [hist EXCEPT !.events = @ + 1]
    /\ activeLocks' = [activeLocks EXCEPT ![n][k] = NoToken]
    /\ UNCHANGED <<redis, alive, job, rowLock, workerVars, sweepVars,
                   forceVars, restartStaleJobs, domainWrites>>
    /\ UNCHANGED notEngine

\* ------------------------------------------------------------------ time
Older(age, cap) == IF age = NullAge \/ age > cap THEN age ELSE age + 1

\* A running renewal timer of a live node extends its lease every
\* RenewalInterval, so that lease never runs out.
Renewed(k) ==
    \E n \in Nodes :
        alive[n] /\ activeLocks[n][k] # NoToken /\ redis[k].token = activeLocks[n][k]

\* PX ttlMs: Redis counts a lease down and drops it when it reaches 0
CountDownNever(entry) == entry
CountDown(entry) == IF entry.pttl > 1 THEN [entry EXCEPT !.pttl = @ - 1] ELSE NoKey

\* One renewal interval of the lease on k passes and nothing renews it.
LeaseRunsOut(k) ==
    /\ Exists(k)
    /\ ~Renewed(k)
    /\ redis' = [redis EXCEPT ![k] = CountDown(@)]
    /\ UNCHANGED <<activeLocks, alive, job, rowLock, workerVars, sweepVars,
                   forceVars, restartStaleJobs, domainWrites, hist>>
    /\ UNCHANGED notEngine

\* started_at and locked_at grow older by one unit
TickAge ==
    /\ job' = [job EXCEPT !.startedAge = Older(@, StaleThreshold),
                          !.lockedAge = Older(@, StaleLockThreshold)]
    /\ job' # job
    /\ UNCHANGED <<lockVars, alive, rowLock, workerVars, sweepVars,
                   forceVars, restartStaleJobs, domainWrites, hist>>
    /\ UNCHANGED notEngine

\* ----------------------------------------------------------------- crash
\* The process of node n dies: its timers and local state are gone, its open
\* database transaction is rolled back by the server.
Crash(n) ==
    /\ alive[n]
    /\ \E m \in Nodes \ {n} : alive[m]
    /\ hist.events < MaxEvents
    /\ hist' = [hist EXCEPT !.events = @ + 1]
    /\ alive' = [alive EXCEPT ![n] = FALSE]
    /\ activeLocks' = [activeLocks EXCEPT ![n] = [k \in Keys |-> NoToken]]
    /\ rowLock' = IF rowLock = n THEN NoNode ELSE rowLock
    /\ pc' = [pc EXCEPT ![n] = "crashed"]
    /\ spc' = [spc EXCEPT ![n] = "crashed"]
    /\ wlock' = [wlock EXCEPT ![n] = NoToken]
    /\ slock' = [slock EXCEPT ![n] = NoToken]
    /\ ssnap' = [ssnap EXCEPT ![n] = NoSnap]
    /\ batches' = [batches EXCEPT ![n] = 0]
    /\ thrown' = [thrown EXCEPT ![n] = NoError]
    /\ verdict' = [verdict EXCEPT ![n] = NoVerdict]
    /\ UNCHANGED <<redis, job, forceVars, restartStaleJobs,
                   domainWrites>>
    /\ UNCHANGED notEngine

\* ------------------------------------------- sweep: cleanupStaleJobs
\* acquireLock('stale-job-cleanup', {ttlMs: 60000, retries: 0});
\* `if (!lock) return {imports: 0, exports: 0}`
SweepStart(n) ==
    /\ alive[n] /\ spc[n] = "idle"
    /\ IF SetNxOk(CleanupKey)
       THEN /\ AcquiredState(n, CleanupKey)
            /\ slock' = [slock EXCEPT ![n] = NewToken(n)]
            /\ spc' = [spc EXCEPT ![n] = "find"]
       ELSE UNCHANGED <<lockVars, slock, spc>>
    /\ UNCHANGED <<alive, job, rowLock, workerVars, ssnap, forceVars,
                   restartStaleJobs, domainWrites, hist>>
    /\ UNCHANGED notEngine

\* The two queries of cleanupStaleImportJobs, deduplicateJobs and the start
\* of the loop over allStaleJobs.
SweepFind(n) ==
    /\ alive[n] /\ spc[n] = "find"
    /\ ssnap' = [ssnap EXCEPT ![n] =
                   IF IsStale(job) THEN Snapshot(job) ELSE NoSnap]
    /\ spc' = [spc EXCEPT ![n] = IF ssnap'[n].found THEN "handle" ELSE "release"]
    /\ UNCHANGED <<lockVars, alive, job, rowLock, workerVars, slock, forceVars,
                   restartStaleJobs, domainWrites, hist>>
    /\ UNCHANGED notEngine

\* handleStaleImportJob(job) for the job found
SweepHandle(n) ==
    /\ alive[n] /\ spc[n] = "handle"
    /\ RowFree
    /\ job' = HandleStale(job, ssnap[n])
    /\ hist' = [hist EXCEPT !.resets = IF RestartBranch(ssnap[n]) THEN @ + 1 ELSE @]
    /\ spc' = [spc EXCEPT ![n] = "release"]
    /\ ssnap' = [ssnap EXCEPT ![n] = NoSnap]
    /\ UNCHANGED <<lockVars, alive, rowLock, pc, wlock, verdict, batches, thrown, slock,
                   forceVars, restartStaleJobs, domainWrites>>
    /\ UNCHANGED notEngine

\* finally { releaseLock(lock) }
SweepRelease(n) ==
    /\ alive[n] /\ spc[n] = "release"
    /\ ReleasedState(n, CleanupKey, slock[n])
    /\ slock' = [slock EXCEPT ![n] = NoToken]
    /\ spc' = [spc EXCEPT ![n] = "idle"]
    /\ UNCHANGED <<alive, job, rowLock, workerVars, ssnap, forceVars,
                   restartStaleJobs, domainWrites, hist>>
    /\ UNCHANGED notEngine

\* ----------------------------------------- admin: forceCleanupImportJob
ForceFind ==
    /\ fpc = "idle"
    /\ hist.events < MaxEvents
    /\ hist' = [hist EXCEPT !.events = @ + 1]
    /\ IF ForceApplies(job)
       THEN fpc' = "handle" /\ fsnap' = Snapshot(job)
       ELSE UNCHANGED <<fpc, fsnap>>
    /\ UNCHANGED <<lockVars, alive, job, rowLock, workerVars, sweepVars,
                   restartStaleJobs, domainWrites>>
    /\ UNCHANGED notEngine

ForceHandle ==
    /\ fpc = "handle"
    /\ RowFree
    /\ job' = HandleStale(job, fsnap)
    /\ hist' = [hist EXCEPT !.resets = IF RestartBranch(fsnap) THEN @ + 1 ELSE @]
    /\ fpc' = "idle"
    /\ fsnap' = NoSnap
    /\ UNCHANGED <<lockVars, alive, rowLock, pc, wlock, verdict, batches, thrown, sweepVars,
                   restartStaleJobs, domainWrites>>
    /\ UNCHANGED notEngine

\* ------------------------------------------------ out-of-band cancellation
\* "cancellation is out-of-band (set status -> CANCELLED)"
CancelJob ==
    /\ job.status \in {PENDING, PROCESSING}
    /\ RowFree
    /\ hist.events < MaxEvents
    /\ hist' = [hist EXCEPT !.events = @ + 1]
    /\ job' = [job EXCEPT !.status = CANCELLED]
    /\ UNCHANGED <<lockVars, alive, rowLock, pc, wlock, verdict, batches, thrown, sweepVars,
                   forceVars, restartStaleJobs, domainWrites>>
    /\ UNCHANGED notEngine

\* ------------------------------------------------------------------ Next
Next ==
    \/ \E n \in Nodes : Deliver(n)
    \/ \E n \in Nodes : TransitionSelect(n)
    \/ \E n \in Nodes : TransitionResume(n)
    \/ \E n \in Nodes : TransitionCommit(n)
    \/ \E n \in Nodes : PipelineBatch(n)
    \/ \E n \in Nodes : ProgressUpdate(n)
    \/ \E n \in Nodes : FinalizeCompleted(n)
    \/ \E n \in Nodes : FinalizeFailed(n)
    \/ \E n \in Nodes : FinalizeRaises(n)
    \/ \E n \in Nodes : ReleaseLock(n)
    \/ \E n \in Nodes, k \in Keys : RenewLockError(n, k)
    \/ \E k \in Keys : LeaseRunsOut(k)
    \/ TickAge
    \/ \E n \in Nodes : Crash(n)
    \/ \E n \in Nodes : SweepStart(n)
    \/ \E n \in Nodes : SweepFind(n)
    \/ \E n \in Nodes : SweepHandle(n)
    \/ \E n \in Nodes : SweepRelease(n)
    \/ ForceFind
    \/ ForceHandle
    \/ CancelJob

Spec == Init /\ [][Next]_vars

\* =============================== direct callers of the DistributedLockService
\* acquireLock(key, {retries}): the caller passes 0 or leaves the default
LockCall(n, retries) ==
    /\ alive[n] /\ lpc[n] = "idle"
    /\ lpc' = [lpc EXCEPT ![n] = "attempt"]
    /\ attempt' = [attempt EXCEPT ![n] = [done |-> 0, retries |-> retries]]
    /\ UNCHANGED <<lockVars, alive, wlock, lret, hist>>
    /\ UNCHANGED notLock

\* One pass of `for (attempt = 0; attempt <= retries; attempt++)`: the SET NX
\* PX; on 'OK' the renewal is started and the Lock returned, otherwise the
\* caller sleeps retryDelayMs and tries again, or returns null after the last
\* attempt.
LockAttempt(n) ==
    /\ alive[n] /\ lpc[n] = "attempt"
    /\ IF SetNxOk(JobKey)
       THEN /\ AcquiredState(n, JobKey)
            /\ wlock' = [wlock EXCEPT ![n] = NewToken(n)]
            /\ lret' = [lret EXCEPT ![n].value = "lock"]
            /\ lpc' = [lpc EXCEPT ![n] = "holding"]
            /\ UNCHANGED attempt
       ELSE IF attempt[n].done < attempt[n].retries
            THEN /\ attempt' = [attempt EXCEPT ![n].done = @ + 1]
                 /\ UNCHANGED <<lockVars, wlock, lret, lpc>>
            ELSE /\ lret' = [lret EXCEPT ![n] = [value |-> "null", refused |-> TRUE]]
                 /\ lpc' = [lpc EXCEPT ![n] = "idle"]
                 /\ attempt' = [attempt EXCEPT ![n] = [done |-> 0, retries |-> 0]]
                 /\ UNCHANGED <<lockVars, wlock>>
    /\ UNCHANGED <<alive, hist>>
    /\ UNCHANGED notLock

\* releaseLock(lock) by the caller that was given the Lock
LockRelease(n) ==
    /\ alive[n] /\ lpc[n] = "holding"
    /\ ReleasedState(n, JobKey, wlock[n])
    /\ lret' = [lret EXCEPT ![n] =
                  [value |-> IF ScriptResult(JobKey, wlock[n]) = 1 THEN "true" ELSE "false",
                   refused |-> FALSE]]
    /\ wlock' = [wlock EXCEPT ![n] = NoToken]
    /\ lpc' = [lpc EXCEPT ![n] = "idle"]
    /\ attempt' = [attempt EXCEPT ![n] = [done |-> 0, retries |-> 0]]
    /\ UNCHANGED <<alive, hist>>
    /\ UNCHANGED notLock

\* extendLock(lock) by the caller that was given the Lock
LockExtend(n) ==
    /\ alive[n] /\ lpc[n] = "holding"
    /\ redis' = ExtendScript(JobKey, wlock[n])
    /\ lret' = [lret EXCEPT ![n].value =
                  IF ScriptResult(JobKey, wlock[n]) = 1 THEN "extended" ELSE "false"]
    /\ UNCHANGED <<activeLocks, alive, wlock, lpc, attempt, hist>>
    /\ UNCHANGED notLock

\* The process of a caller dies while the others keep running.
LockCrash(n) ==
    /\ alive[n]
    /\ \E m \in Nodes \ {n} : alive[m]
    /\ hist.events < MaxEvents
    /\ hist' = [hist EXCEPT !.events = @ + 1]
    /\ alive' = [alive EXCEPT ![n] = FALSE]
    /\ activeLocks' = [activeLocks EXCEPT ![n] = [k \in Keys |-> NoToken]]
    /\ lpc' = [lpc EXCEPT ![n] = "crashed"]
    /\ UNCHANGED <<redis, wlock, attempt, lret>>
    /\ UNCHANGED notLock

InitLock ==
    /\ InitNoPipe
    /\ InitNoUpsert
    /\ InitNoExport
    /\ InitNoGet
    /\ lpc = [n \in Nodes |-> "idle"]
    /\ restartStaleJobs = FALSE
    /\ InitShared

NextLock ==
    \/ \E n \in Nodes, r \in {0, DefaultRetries} : LockCall(n, r)
    \/ \E n \in Nodes : LockAttempt(n)
    \/ \E n \in Nodes : LockRelease(n)
    \/ \E n \in Nodes : LockExtend(n)
    \/ \E n \in Nodes : RenewLockError(n, JobKey)
    \/ LeaseRunsOut(JobKey)
    \/ \E n \in Nodes : LockCrash(n)

SpecLock == InitLock /\ [][NextLock]_vars

\* ------------------------------------------------- create-import requests
\* importJobRepository.findOne({ where: { idempotencyKey: key } })
FindNothing(key) == {}
FindByIdempotencyKey(key) ==
    {i \in Requests : importJobs[i].exists /\ importJobs[i].idempotencyKey = key}

\* @Column({ unique: true }) and the unique index on idempotency_key: an
\* INSERT of a non-null key that a row already has is rejected
NoUniqueIndex(key) == FALSE
UniqueViolation(key) ==
    /\ key # NoIdemKey
    /\ \E i \in Requests : importJobs[i].exists /\ importJobs[i].idempotencyKey = key

\* importJobRepository.create({ idempotencyKey, status: PENDING, ... }); the
\* URL variant sets fileUrl at once
NewImportJob(req) ==
    [exists |-> TRUE, idempotencyKey |-> req.idempotencyKey, status |-> PENDING,
     fileUrl |-> (req.kind = "url")]

\* createImportFromFile / createImportFromUrl up to the first save: the
\* idempotency check, then the format (and fileUrl) check
CreateImport(r, key, kind, valid) ==
    /\ cpc[r] = "idle"
    /\ creq' = [creq EXCEPT ![r] = [idempotencyKey |-> key, kind |-> kind,
                                     valid |-> valid]]
    /\ IF key # NoIdemKey /\ FindByIdempotencyKey(key) # {}
         THEN \E id \in FindByIdempotencyKey(key) :
                  /\ cres' = [cres EXCEPT ![r] = id]
                  /\ cpc' = [cpc EXCEPT ![r] = "returned"]
         ELSE /\ cpc' = [cpc EXCEPT ![r] = IF valid THEN "save" ELSE "rejected"]
              /\ UNCHANGED cres
    /\ UNCHANGED <<importJobs, storage, importQueue>>
    /\ UNCHANGED notCreate

\* await this.importJobRepository.save(job): the INSERT, which the unique
\* index can reject
CreateSave(r) ==
    /\ cpc[r] = "save"
    /\ IF UniqueViolation(creq[r].idempotencyKey)
         THEN /\ cpc' = [cpc EXCEPT ![r] = "failed"]
              /\ UNCHANGED importJobs
         ELSE /\ importJobs' = [importJobs EXCEPT ![r] = NewImportJob(creq[r])]
              /\ cpc' = [cpc EXCEPT ![r] =
                            IF creq[r].kind = "file" THEN "upload" ELSE "enqueue"]
    /\ UNCHANGED <<storage, importQueue, creq, cres>>
    /\ UNCHANGED notCreate

\* storageService.uploadBuffer(...); job.fileUrl = storageKey; save(job)
CreateUpload(r) ==
    /\ cpc[r] = "upload"
    /\ storage' = storage \cup {r}
    /\ importJobs' = [importJobs EXCEPT ![r].fileUrl = TRUE]
    /\ cpc' = [cpc EXCEPT ![r] = "enqueue"]
    /\ UNCHANGED <<importQueue, creq, cres>>
    /\ UNCHANGED notCreate

\* uploadBuffer throws: the request fails after its row was inserted
CreateUploadFails(r) ==
    /\ cpc[r] = "upload"
    /\ cpc' = [cpc EXCEPT ![r] = "failed"]
    /\ UNCHANGED <<importJobs, storage, importQueue, creq, cres>>
    /\ UNCHANGED notCreate

\* importQueue.add throws: the request fails after its row was inserted
\* (and, for a file, after the upload)
CreateEnqueueFails(r) ==
    /\ cpc[r] = "enqueue"
    /\ cpc' = [cpc EXCEPT ![r] = "failed"]
    /\ UNCHANGED <<importJobs, storage, importQueue, creq, cres>>
    /\ UNCHANGED notCreate

\* cleanupStaleImportJobs: the rows it selects are PROCESSING rows started
\* long ago and PENDING or PROCESSING rows with an old lockedAt; a row that
\* no worker claimed has lockedBy NULL
StaleImportSelected(row) == row.exists /\ row.status = PROCESSING

\* handleStaleImportJob (restartStaleJobs off): the selected row is marked
\* FAILED
CleanupStaleImport(i) ==
    /\ StaleImportSelected(importJobs[i])
    /\ importJobs' = [importJobs EXCEPT ![i].status = FAILED]
    /\ UNCHANGED <<storage, importQueue, cpc, creq, cres>>
    /\ UNCHANGED notCreate

\* importQueue.add(PROCESS_IMPORT, { jobId: job.id, ... }); return the job
CreateEnqueue(r) ==
    /\ cpc[r] = "enqueue"
    /\ importQueue' = importQueue \cup {r}
    /\ cres' = [cres EXCEPT ![r] = r]
    /\ cpc' = [cpc EXCEPT ![r] = "created"]
    /\ UNCHANGED <<importJobs, storage, creq>>
    /\ UNCHANGED notCreate

\* a worker takes the queued job through its life cycle (atomicStatusTransition
\* PENDING -> PROCESSING, finalizeJob PROCESSING -> COMPLETED | FAILED)
ImportRuns(i, s) ==
    /\ i \in importQueue
    /\ \/ importJobs[i].status = PENDING /\ s = PROCESSING
       \/ importJobs[i].status = PROCESSING /\ s \in {COMPLETED, FAILED}
    /\ importJobs' = [importJobs EXCEPT ![i].status = s]
    /\ UNCHANGED <<storage, importQueue, cpc, creq, cres>>
    /\ UNCHANGED notCreate

InitCreate ==
    /\ InitNoPipe
    /\ InitNoUpsert
    /\ InitNoExport
    /\ InitNoGet
    /\ lpc = [n \in Nodes |-> "unused"]
    /\ restartStaleJobs = FALSE
    /\ InitShared

NextCreate ==
    \/ \E r \in Requests, key \in IdemKeys \cup {NoIdemKey},
          kind \in {"file", "url"}, valid \in BOOLEAN :
            CreateImport(r, key, kind, valid)
    \/ \E r \in Requests : CreateSave(r)
    \/ \E r \in Requests : CreateUpload(r)
    \/ \E r \in Requests : CreateUploadFails(r)
    \/ \E r \in Requests : CreateEnqueue(r)
    \/ \E r \in Requests : CreateEnqueueFails(r)
    \/ \E i \in Requests : CleanupStaleImport(i)
    \/ \E i \in Requests, s \in {PROCESSING, COMPLETED, FAILED} : ImportRuns(i, s)

SpecCreate == InitCreate /\ [][NextCreate]_vars

\* ------------------------------------------- import pipeline: row counters
\* A batch is described by what its rows are: `bad` lines that are not JSON
\* (NDJSON), `nulls` lines whose JSON value is falsy (NDJSON), `invalid`
\* records that fail validation with `errsEach` errors each, and valid records
\* of which `rowFails` fail at their savepoint; `outcome` is how the batch
\* transaction of upsertRecords ends.
Batch(size, bad, nulls, invalid, errsEach, rowFails, outcome) ==
    [size |-> size, bad |-> bad, nulls |-> nulls, invalid |-> invalid,
     errsEach |-> errsEach, rowFails |-> rowFails, outcome |-> outcome]
Parsed(b) == b.size - b.bad - b.nulls
Valid(b) == Parsed(b) - b.invalid
Clean(size) == Batch(size, 0, 0, 0, 1, 0, "commit")

\* the batches of `size` rows a file of format fmt can hold
BatchMenu(fmt, size) ==
    {Clean(size),
     Batch(size, 0, 0, 1, 1, 0, "commit"),
     Batch(size, 0, 0, size, 3, 0, "commit"),
     Batch(size, 0, 0, 0, 1, 1, "commit"),
     Batch(size, 0, 0, 0, 1, 0, "upsertThrows"),
     Batch(size, 0, 0, 0, 1, 0, "commitThrows")}
    \cup (IF fmt = "ndjson"
           THEN {Batch(size, 1, 0, 0, 1, 0, "commit"),
                 Batch(size, size, 0, 0, 1, 0, "commit"),
                 Batch(size, 0, 1, 0, 1, 0, "commit")}
           ELSE {})

Min(a, b) == IF a < b THEN a ELSE b

\* Array.prototype.slice(0, n) of a list of `len` entries: its length
SliceAll(len, n) == len
Slice(len, n) == IF n <= 0 THEN 0 ELSE Min(len, n)

\* processBatchWithLineNumbers, "Add validation errors": the errors of a
\* record are pushed while the batch's list is below maxErrors, so the first
\* ceil(maxErrors / errsEach) invalid records store theirs
PushValidationErrors(n, errsEach) ==
    errsEach * Min(n, (MaxErrors + errsEach - 1) \div errsEach)

\* upsertRecords: the counts of upsertUsers / upsertArticles / upsertComments,
\* assigned once that call has returned; the catch block then counts every
\* record of the batch as failed
UpsertRecords(valid, rowFails, outcome) ==
    LET counted == IF outcome = "upsertThrows"
                     THEN [successful |-> 0, failed |-> 0, errors |-> 0]
                     ELSE [successful |-> valid - rowFails, failed |-> rowFails,
                           errors |-> rowFails]
    IN  IF outcome = "commit"
          THEN [successful |-> counted.successful, failed |-> counted.failed,
                skipped |-> 0, errors |-> counted.errors]
          ELSE [successful |-> counted.successful,
                failed |-> counted.failed + valid,
                skipped |-> 0, errors |-> counted.errors + valid]

\* a processBatchWithLineNumbers that forgets its invalid records
ProcessBatchDroppingInvalid(b) ==
    LET up == UpsertRecords(Valid(b), b.rowFails, b.outcome)
    IN  IF Valid(b) > 0
          THEN [successful |-> up.successful, failed |-> up.failed,
                skipped |-> up.skipped, errors |-> up.errors]
          ELSE [successful |-> 0, failed |-> 0, skipped |-> 0, errors |-> 0]

ProcessBatchWithLineNumbers(b) ==
    LET failed0 == b.invalid
        errors0 == PushValidationErrors(b.invalid, b.errsEach)
        up == UpsertRecords(Valid(b), b.rowFails, b.outcome)
    IN  IF Valid(b) > 0
          THEN [successful |-> up.successful, failed |-> failed0 + up.failed,
                skipped |-> up.skipped, errors |-> errors0 + up.errors]
          ELSE [successful |-> 0, failed |-> failed0, skipped |-> 0,
                errors |-> errors0]

\* if (errors.length < this.maxErrors)
\*   errors.push(...result.errors.slice(0, this.maxErrors - errors.length))
PushErrors(len, more) ==
    IF len < MaxErrors THEN len + Slice(more, MaxErrors - len) ELSE len

\* the rows of the file, which processJSONStream knows before its loop
FileRows == IF numBatches = 0 THEN 0 ELSE (numBatches - 1) * BatchSize + lastSize

\* one iteration of the loop of processCSVStream / processJSONStream
BatchStep(c, b, fmt) ==
    LET result == ProcessBatchWithLineNumbers(b)
    IN  [totalRows |-> IF fmt = "json" THEN FileRows ELSE c.totalRows + b.size,
         processedRows |-> c.processedRows + b.size,
         successfulRows |-> c.successfulRows + result.successful,
         failedRows |-> c.failedRows + result.failed,
         skippedRows |-> c.skippedRows + result.skipped,
         errors |-> PushErrors(c.errors, result.errors)]

\* one iteration of the loop of processNDJSONStream: the unparsable lines are
\* counted as failed, the parsed records go to processBatchWithLineNumbers
NdjsonStep(c, b) ==
    LET result == ProcessBatchWithLineNumbers(b)
        parseErrors == IF c.errors < MaxErrors
                         THEN Min(c.errors + b.bad, MaxErrors) ELSE c.errors
    IN  IF Parsed(b) > 0
          THEN [totalRows |-> c.totalRows + b.size,
                processedRows |-> c.processedRows + Parsed(b),
                successfulRows |-> c.successfulRows + result.successful,
                failedRows |-> c.failedRows + b.bad + result.failed,
                skippedRows |-> c.skippedRows + result.skipped,
                errors |-> PushErrors(parseErrors, result.errors)]
          ELSE [c EXCEPT !.totalRows = @ + b.size,
                         !.failedRows = @ + b.bad,
                         !.errors = parseErrors]

\* updateJobProgress: repository.update(jobId, the five counters)
UpdateJobProgress(row, c) ==
    [row EXCEPT !.totalRows = c.totalRows, !.processedRows = c.processedRows,
                !.successfulRows = c.successfulRows, !.failedRows = c.failedRows,
                !.skippedRows = c.skippedRows]

\* the JSON loop reports after every batch, the others after every tenth
ProgressDue(fmt, n) == fmt = "json" \/ n % ProgressEvery = 0

\* row errors and failing rows of a batch, whatever is stored of them;
\* rowFailures are the rows that fail on their own (unparsable, invalid,
\* rejected at their savepoint)
GhostStep(g, b) ==
    LET lost == IF b.outcome = "commit" THEN b.rowFails ELSE Valid(b)
        upErrors == IF b.outcome = "commit" THEN b.rowFails
                    ELSE IF b.outcome = "upsertThrows" THEN Valid(b)
                    ELSE b.rowFails + Valid(b)
    IN  [errors |-> g.errors + b.bad + b.invalid * b.errsEach + upErrors,
         failures |-> g.failures + b.bad + b.invalid + lost,
         rowFailures |-> g.rowFailures + b.bad + b.invalid + b.rowFails]

\* processJSONStream, before its loop: JSON.parse(content) and
\* Array.isArray(data); the other formats have no such step
Contents == {"array", "notArray", "unparsable"}
JsonParses(c) == c # "unparsable"
AnyIsArray(c) == TRUE
IsArray(c) == c = "array"
Decodes == fileFormat = "json" => (JsonParses(content) /\ IsArray(content))

\* the stream loop handles the next batch of the file
PipeBatch(b) ==
    /\ ppc = "stream"
    /\ Decodes
    /\ batchNumber < numBatches
    /\ b \in BatchMenu(fileFormat,
                       IF batchNumber + 1 = numBatches THEN lastSize ELSE BatchSize)
    /\ b = Clean(b.size) \/ dirtyUsed < MaxDirty
    /\ dirtyUsed' = IF b = Clean(b.size) THEN dirtyUsed ELSE dirtyUsed + 1
    /\ batchNumber' = batchNumber + 1
    /\ counters' = IF fileFormat = "ndjson" THEN NdjsonStep(counters, b)
                   ELSE BatchStep(counters, b, fileFormat)
    /\ jobRow' = IF ProgressDue(fileFormat, batchNumber')
                   THEN UpdateJobProgress(jobRow, counters') ELSE jobRow
    /\ ghost' = GhostStep(ghost, b)
    /\ UNCHANGED <<fileFormat, numBatches, lastSize, ppc, content, restarts>>
    /\ UNCHANGED notPipe

\* the stream has ended: finalizeJob(COMPLETED, { the counters,
\* errors: errors.slice(0, this.maxErrors), ... })
PipeComplete ==
    /\ ppc = "stream"
    /\ Decodes
    /\ batchNumber = numBatches
    /\ jobRow' = [UpdateJobProgress(jobRow, counters) EXCEPT
                    !.status = COMPLETED,
                    !.errors = Slice(counters.errors, MaxErrors)]
    /\ ppc' = "done"
    /\ UNCHANGED <<fileFormat, numBatches, lastSize, batchNumber, dirtyUsed,
                   counters, ghost, content, restarts>>
    /\ UNCHANGED notPipe

\* the stream raises (storage, CSV syntax, a JSON element that is not an
\* object): finalizeJob(FAILED, { errorMessage, ... }) writes no counter
PipeFails ==
    /\ ppc = "stream"
    /\ jobRow' = [jobRow EXCEPT !.status = FAILED, !.errorMessage = "fatal"]
    /\ ppc' = "done"
    /\ UNCHANGED <<fileFormat, numBatches, lastSize, batchNumber, dirtyUsed,
                   counters, ghost, content, restarts>>
    /\ UNCHANGED notPipe

\* processJSONStream throws `Invalid JSON: ...` before any batch; the catch
\* of executeImportProcessing stores finalizeJob(FAILED, { errorMessage })
PipeDecodeFails ==
    /\ ppc = "stream"
    /\ ~Decodes
    /\ jobRow' = [jobRow EXCEPT !.status = FAILED, !.errorMessage = "Invalid JSON"]
    /\ ppc' = "done"
    /\ UNCHANGED <<fileFormat, numBatches, lastSize, batchNumber, dirtyUsed,
                   counters, ghost, content, restarts>>
    /\ UNCHANGED notPipe

\* The run stalls, stale-job recovery puts the job back to PENDING
\* (handleStaleImportJob writes status, lockedBy, lockedAt and startedAt
\* only), and the next delivery moves it to PROCESSING and calls
\* executeImportProcessing again: the stream function starts from the first
\* batch with its local counters at 0, the row keeps what was persisted
PipeRestart ==
    /\ ppc = "stream"
    /\ restartStaleJobs
    /\ restarts < MaxRestarts
    /\ restarts' = restarts + 1
    /\ batchNumber' = 0
    /\ counters' = ZeroCounters
    /\ ghost' = [errors |-> 0, failures |-> 0, rowFailures |-> 0]
    /\ UNCHANGED <<fileFormat, numBatches, lastSize, ppc, dirtyUsed, jobRow, content>>
    /\ UNCHANGED notPipe

\* executeImportProcessing starts on a PROCESSING job whose file has
\* numBatches batches, the last of lastSize rows
InitPipe ==
    /\ lpc = [n \in Nodes |-> "unused"]
    /\ restartStaleJobs \in BOOLEAN
    /\ InitShared
    /\ InitNoUpsert
    /\ InitNoExport
    /\ InitNoGet
    /\ fileFormat \in Formats
    /\ numBatches \in 0 .. MaxBatches
    /\ lastSize \in IF numBatches = 0 THEN {0} ELSE {1, BatchSize}
    /\ content \in IF fileFormat = "json" THEN Contents ELSE {"array"}
    /\ ppc = "stream"
    /\ jobRow = NewJobRow(PROCESSING)

NextPipe ==
    \/ \E b \in UNION {BatchMenu(f, z) : f \in Formats, z \in {1, BatchSize}} :
          PipeBatch(b)
    \/ PipeComplete
    \/ PipeDecodeFails
    \/ PipeFails
    \/ PipeRestart

SpecPipe == InitPipe /\ [][NextPipe]_vars

\* ------------------------------------------- import pipeline: the upserts
\* A validated record: the client-supplied id (NoId when the row has none),
\* the unique key of its kind (email, slug; comments have none), the other
\* fields, and whether the rows it refers to (author, article, user) exist.
ClientIds == 1 .. NumClientIds
RowKeys == 1 .. NumRowKeys
RowVals == 1 .. NumRowVals
NoRowKey == 0
ResourceTypes == {"users", "articles", "comments"}

\* An email is a key k or its other spelling k + NumRowKeys, which differs
\* from k in letter case only; slugs have one spelling.
Spellings(kind) == IF kind = "users" THEN 1 .. 2 * NumRowKeys ELSE RowKeys
Rows(kind) ==
    [id : ClientIds \cup {NoId},
     key : IF kind = "comments" THEN {NoRowKey} ELSE Spellings(kind),
     val : RowVals,
     refsExist : IF kind = "users" THEN {TRUE} ELSE BOOLEAN]

\* userData.email.toLowerCase()
ToLowerCase(k) == IF k > NumRowKeys THEN k - NumRowKeys ELSE k

\* the key under which a record is remembered in the batch: emailLower for
\* users, articleData.slug for articles
BatchKey(kind, rec) == IF kind = "users" THEN ToLowerCase(rec.key) ELSE rec.key

\* the field an error of the duplicate check and of the reference check is
\* filed under (a comment's first reference check is the article's)
KeyField(kind) == IF kind = "users" THEN "email" ELSE "slug"
RefField(kind) == IF kind = "articles" THEN "author_id" ELSE "article_id"

\* uuidv4(): an id no client supplies and no earlier call returned
Uuid(n) == NumClientIds + 1 + n

\* queryRunner.manager.save(entity): an entity whose primary key is in the
\* table updates that row, any other is inserted
Save(tbl, entity) == {r \in tbl : r.id # entity.id} \cup {entity}

\* what an upsert loop has done so far: the table, the uuids drawn, the two
\* counts and the errors
NoFirstRow == 0
UpsertStart(tbl, n) ==
    [table |-> tbl, uuids |-> n, successful |-> 0, failed |-> 0, errors |-> {}]
Saved(acc, entity, drawn) ==
    [acc EXCEPT !.table = Save(acc.table, entity),
                !.uuids = acc.uuids + drawn,
                !.successful = acc.successful + 1]
Failed(acc, row, field, firstRow) ==
    [acc EXCEPT !.failed = acc.failed + 1,
                !.errors = acc.errors \cup
                             {[row |-> row, field |-> field, firstRow |-> firstRow]}]

\* seenEmailsInBatch / seenSlugsInBatch: key -> line number of its first record
SeenNever(seen, k) == FALSE
SeenBefore(seen, k) == \E s \in seen : s.key = k
FirstSeen(seen, k) == (CHOOSE s \in seen : s.key = k).row

\* the loop of upsertUsers / upsertArticles over the records of a batch;
\* `existing` is the table as read before the loop (emailToUser,
\* slugToArticle), `seen` the keys of the records handled so far, `line` the
\* line number of the first record
RECURSIVE UpsertKeyed(_, _, _, _, _, _)
UpsertKeyed(kind, records, line, existing, seen, acc) ==
    IF records = <<>> THEN acc
    ELSE LET rec == Head(records)
             rest == Tail(records)
             k == BatchKey(kind, rec)
             found == {r \in existing : r.key = rec.key}
             seenNow == seen \cup {[key |-> k, row |-> line]}
         IN  IF SeenBefore(seen, k)
               THEN UpsertKeyed(kind, rest, line + 1, existing, seen,
                                Failed(acc, line, KeyField(kind), FirstSeen(seen, k)))
             ELSE IF ~rec.refsExist
               THEN UpsertKeyed(kind, rest, line + 1, existing, seenNow,
                                Failed(acc, line, RefField(kind), NoFirstRow))
             ELSE IF found # {}
               THEN LET old == CHOOSE r \in found : TRUE
                    IN  UpsertKeyed(kind, rest, line + 1, existing, seenNow,
                                    Saved(acc, [old EXCEPT !.val = rec.val], 0))
             ELSE IF rec.id # NoId
               THEN UpsertKeyed(kind, rest, line + 1, existing, seenNow,
                                Saved(acc, [id |-> rec.id, key |-> rec.key,
                                            val |-> rec.val], 0))
             ELSE UpsertKeyed(kind, rest, line + 1, existing, seenNow,
                              Saved(acc, [id |-> Uuid(acc.uuids), key |-> rec.key,
                                          val |-> rec.val], 1))

\* the loop of upsertComments: a record with an id that the table holds
\* updates that comment, any other record creates one
RECURSIVE UpsertComments(_, _, _)
UpsertComments(records, line, acc) ==
    IF records = <<>> THEN acc
    ELSE LET rec == Head(records)
             rest == Tail(records)
             found == {r \in acc.table : rec.id # NoId /\ r.id = rec.id}
         IN  IF ~rec.refsExist
               THEN UpsertComments(rest, line + 1,
                                   Failed(acc, line, RefField("comments"), NoFirstRow))
             ELSE IF found # {}
               THEN LET old == CHOOSE r \in found : TRUE
                    IN  UpsertComments(rest, line + 1,
                                       Saved(acc, [old EXCEPT !.val = rec.val], 0))
             ELSE IF rec.id # NoId
               THEN UpsertComments(rest, line + 1,
                                   Saved(acc, [id |-> rec.id, key |-> NoRowKey,
                                               val |-> rec.val], 0))
             ELSE UpsertComments(rest, line + 1,
                                 Saved(acc, [id |-> Uuid(acc.uuids), key |-> NoRowKey,
                                             val |-> rec.val], 1))

\* upsertRecords: switch (resourceType), then commit; the records of the
\* batch are numbered from line 1
UpsertBatch(kind, records, tbl, n) ==
    IF kind = "comments" THEN UpsertComments(records, 1, UpsertStart(tbl, n))
    ELSE UpsertKeyed(kind, records, 1, tbl, {}, UpsertStart(tbl, n))

\* one import of the file runs to completion
ImportFile ==
    /\ imports < 2
    /\ LET result == UpsertBatch(resourceType, file, table, uuids)
       IN  /\ table' = result.table
           /\ uuids' = result.uuids
           /\ lastResult' = result
           /\ afterFirst' = IF imports = 0 THEN result.table ELSE afterFirst
    /\ imports' = imports + 1
    /\ UNCHANGED <<resourceType, file>>
    /\ UNCHANGED notUpsert

\* files of up to MaxRows records
Files(kind) == UNION {[1 .. len -> Rows(kind)] : len \in 0 .. MaxRows}

InitUpsert ==
    /\ lpc = [n \in Nodes |-> "unused"]
    /\ restartStaleJobs = FALSE
    /\ InitShared
    /\ InitNoPipe
    /\ InitNoExport
    /\ InitNoGet
    /\ resourceType \in ResourceTypes
    /\ file \in Files(resourceType)

NextUpsert == ImportFile

SpecUpsert == InitUpsert /\ [][NextUpsert]_vars

\* ------------------------------------------- export: streaming the rows
\* A row of the exported table: its id, its created_at, and whether it
\* satisfies the filters of the job.
ExportIds == 1 .. MaxExportRows
Times == 1 .. NumTimes
ExportTables ==
    {t \in SUBSET [id : ExportIds, createdAt : Times, matches : BOOLEAN] :
        \A r \in t, q \in t : r.id = q.id => r = q}

\* applyCommonFilters and the filters of the resource type, the same in
\* countRecords and in fetchUsers / fetchArticles / fetchComments
Matching(rows) == {r \in rows : r.matches}

\* countRecords: qb.getCount()
CountRecords(rows) == Cardinality(Matching(rows))

\* qb.orderBy('user.createdAt', 'ASC'): the orders the query may return its
\* rows in; rows of equal created_at come in whatever order the database
\* picks for that query
OrderByCreatedAt(rows) ==
    {o \in [1 .. Cardinality(rows) -> rows] :
        /\ \A i \in DOMAIN o, j \in DOMAIN o : o[i] = o[j] => i = j
        /\ \A i \in DOMAIN o, j \in DOMAIN o : i < j => o[i].createdAt <= o[j].createdAt}

\* .skip(offset).take(limit)
SkipTake(o, off, limit) == SubSeq(o, off + 1, Min(Len(o), off + limit))

\* executeExportProcessing: const totalRows = await this.countRecords(...)
ExportCount ==
    /\ epc = "count"
    /\ exportTotal' = CountRecords(exportRows)
    /\ epc' = "stream"
    /\ UNCHANGED <<exportRows, offset, emitted>>
    /\ UNCHANGED notExport

\* one iteration of the loop of streamRecords: fetchRecordsBatch(offset,
\* batchSize), write the records, advance the offset
ExportPage ==
    /\ epc = "stream"
    /\ \E o \in OrderByCreatedAt(Matching(exportRows)) :
          LET records == SkipTake(o, offset, PageSize)
          IN  IF records = <<>>
                THEN /\ epc' = "done"
                     /\ UNCHANGED <<offset, emitted>>
                ELSE /\ emitted' = emitted \o [i \in 1 .. Len(records) |-> records[i].id]
                     /\ offset' = offset + Len(records)
                     /\ epc' = IF Len(records) = PageSize THEN "stream" ELSE "done"
    /\ UNCHANGED <<exportRows, exportTotal>>
    /\ UNCHANGED notExport

InitExport ==
    /\ lpc = [n \in Nodes |-> "unused"]
    /\ restartStaleJobs = FALSE
    /\ InitShared
    /\ InitNoPipe
    /\ InitNoUpsert
    /\ InitNoGet
    /\ exportRows \in ExportTables
    /\ epc = "count"
    /\ exportTotal = 0
    /\ offset = 0
    /\ emitted = <<>>

NextExport == ExportCount \/ ExportPage

SpecExport == InitExport /\ [][NextExport]_vars

\* ------------------------------------------- export: reading a job
NoExpiry == NullAge

\* getPresignedDownloadUrl: a URL generated at time t
Presigned(t) == t

\* getJob: `job.status === COMPLETED && job.fileName`, and
\* `!job.expiresAt || job.expiresAt < expiryThreshold` with the threshold one
\* hour from now
AboutToExpire(entity, t) ==
    entity.expiresAt = NoExpiry \/ entity.expiresAt < t + RefreshHours
RefreshWhateverStatus(entity, t) == AboutToExpire(entity, t)
NeedsRefresh(entity, t) ==
    entity.status = COMPLETED /\ entity.fileName /\ AboutToExpire(entity, t)

\* exportJobRepository.save(job): the columns in which the entity differs
\* from the stored row are written, which leaves the row equal to the entity
SaveEntity(row, entity) == entity

\* findOne({ where: { id } })
GetJobFind ==
    /\ gpc = "idle"
    /\ gsnap' = exportJob
    /\ gpc' = "found"
    /\ UNCHANGED <<exportJob, now, esnap>>
    /\ UNCHANGED notGet

\* the rest of getJob: refresh the URL of the entity and save it, or leave
\* it; the entity is what the call returns
GetJobReturn ==
    /\ gpc = "found"
    /\ LET refreshed == [gsnap EXCEPT !.downloadUrl = Presigned(now),
                                      !.expiresAt = now + DownloadUrlExpiryHours]
       IN  IF NeedsRefresh(gsnap, now)
             THEN /\ exportJob' = SaveEntity(exportJob, refreshed)
                  /\ gsnap' = refreshed
             ELSE UNCHANGED <<exportJob, gsnap>>
    /\ gpc' = "idle"
    /\ UNCHANGED <<now, esnap>>
    /\ UNCHANGED notGet

\* time passes between calls
ExportTick ==
    /\ gpc = "idle"
    /\ now < MaxNow
    /\ now' = now + 1
    /\ UNCHANGED <<exportJob, gpc, gsnap, esnap>>
    /\ UNCHANGED notGet

\* executeExportProcessing ends: finalizeJob(COMPLETED, { exportedRows,
\* fileName, downloadUrl, expiresAt, lockedBy: null, ... }), applied to a
\* PROCESSING job only
ExportCompletes ==
    /\ exportJob.status = PROCESSING
    /\ exportJob' = [exportJob EXCEPT
                       !.status = COMPLETED, !.fileName = TRUE,
                       !.downloadUrl = Presigned(now),
                       !.expiresAt = now + DownloadUrlExpiryHours,
                       !.exportedRows = 2, !.lockedBy = NoNode]
    /\ UNCHANGED <<now, gpc, gsnap, esnap>>
    /\ UNCHANGED notGet

\* cleanupStaleExportJobs: its query returns the job as a stale
\* PROCESSING job
StaleExportFind ==
    /\ exportJob.status = PROCESSING
    /\ esnap = NoSnap
    /\ esnap' = exportJob
    /\ UNCHANGED <<exportJob, now, gpc, gsnap>>
    /\ UNCHANGED notGet

\* handleStaleExportJob(job): update(job.id, { status: FAILED, lockedBy:
\* null, errorMessage, ... }) whatever the row holds by now
StaleExportHandle ==
    /\ esnap # NoSnap
    /\ exportJob' = [exportJob EXCEPT !.status = FAILED, !.lockedBy = NoNode,
                                      !.errorMessage = TRUE]
    /\ esnap' = NoSnap
    /\ UNCHANGED <<now, gpc, gsnap>>
    /\ UNCHANGED notGet

\* the export jobs getJob can be asked for
ExportJobs ==
    {NewExportJob,
     [NewExportJob EXCEPT !.status = PROCESSING, !.lockedBy = 1],
     [NewExportJob EXCEPT !.status = FAILED, !.errorMessage = TRUE],
     [NewExportJob EXCEPT !.status = CANCELLED]}
    \cup {[NewExportJob EXCEPT !.status = COMPLETED, !.fileName = TRUE,
                               !.downloadUrl = Presigned(0), !.expiresAt = e,
                               !.exportedRows = 1] :
            e \in 0 .. MaxNow + RefreshHours + 1}

InitGet ==
    /\ lpc = [n \in Nodes |-> "unused"]
    /\ restartStaleJobs = FALSE
    /\ InitShared
    /\ InitNoPipe
    /\ InitNoUpsert
    /\ InitNoExport
    /\ exportJob \in ExportJobs
    /\ now = 0
    /\ gpc = "idle"
    /\ gsnap = NoSnap
    /\ esnap = NoSnap

NextGet ==
    \/ GetJobFind
    \/ GetJobReturn
    \/ ExportTick
    \/ ExportCompletes
    \/ StaleExportFind
    \/ StaleExportHandle

SpecGet == InitGet /\ [][NextGet]_vars

\* ------------------------------------------- import: the value of an error
\* A string is modelled by its length; a stored value by the characters kept
\* of the original and whether '...' was appended.
Lengths == {UuidChars, TruncateAt, TruncateAt + 1, KeyMaxLength, KeyMaxLength + 1}
Stages == {"schema", "semantic", "commentBody", "duplicate", "foreignKey", "database"}
Raw(len) == [chars |-> len, ellipsis |-> FALSE]

\* truncateValue(value, maxLength = 100)
TruncateValue(len) ==
    IF len > TruncateAt THEN [chars |-> TruncateAt, ellipsis |-> TRUE] ELSE Raw(len)

\* the `value` each stage stores: flattenValidationErrors truncates, the
\* comment word-count check stores body.substring(0, 100) + '...', the slug
\* check, the duplicate checks, the reference checks and the savepoint
\* catch blocks store the field as it is
StoredValue(stage, len) ==
    CASE stage = "schema" -> TruncateValue(len)
      [] stage = "commentBody" -> [chars |-> Min(len, TruncateAt), ellipsis |-> TRUE]
      [] OTHER -> Raw(len)

\* the lengths a value can have when a stage rejects it: a record is past
\* schema validation when the later stages see it, so its email or slug has
\* at most 255 characters, its references are UUIDs and its published_at is
\* a date string; a body of more than 500 words is longer than 100
\* characters
CanReject(stage, len) ==
    CASE stage = "schema" -> TRUE
      [] stage = "commentBody" -> len > TruncateAt
      [] stage = "foreignKey" -> len = UuidChars
      [] stage = "semantic" -> len <= TruncateAt
      [] OTHER -> len <= KeyMaxLength

\* errors.push({ row, field, message, value })
RecordError(stage, len) ==
    /\ Len(jobErrors) < MaxListed
    /\ CanReject(stage, len)
    /\ jobErrors' = Append(jobErrors, [stage |-> stage, length |-> len,
                                       value |-> StoredValue(stage, len)])
    /\ UNCHANGED notErrors

InitErrors ==
    /\ lpc = [n \in Nodes |-> "unused"]
    /\ restartStaleJobs = FALSE
    /\ InitShared
    /\ InitNoPipe
    /\ InitNoUpsert
    /\ InitNoExport
    /\ InitNoGet

NextErrors == \E stage \in Stages, len \in Lengths : RecordError(stage, len)

SpecErrors == InitErrors /\ [][NextErrors]_vars

\* Redis counts leases down; callers that want the lock keep asking for it
\* and give it back.
FairLock ==
    /\ WF_vars(LeaseRunsOut(JobKey))
    /\ \A n \in Nodes :
         WF_vars(LockCall(n, 0)) /\ WF_vars(LockAttempt(n)) /\ WF_vars(LockRelease(n))

FairSpecLock == SpecLock /\ FairLock


\* The sweep is scheduled by cron, Redis counts leases down, time passes and
\* a started database transaction runs to its end.
Fairness ==
    /\ WF_vars(TickAge)
    /\ \A k \in Keys : WF_vars(LeaseRunsOut(k))
    /\ \A n \in Nodes :
         /\ WF_vars(SweepStart(n)) /\ WF_vars(SweepFind(n))
         /\ WF_vars(SweepHandle(n)) /\ WF_vars(SweepRelease(n))
         /\ WF_vars(TransitionResume(n)) /\ WF_vars(TransitionCommit(n))

FairSpec == Spec /\ Fairness

\* =================================================================== claims
InPipeline(n) == pc[n] \in {"pipeline", "progress"}
Rejected(n) == verdict[n].kind \in {"status", "error"}
\* node n's transition call returns in this step
Returns(n) == verdict[n].kind = "none" /\ verdict'[n].kind # "none"
\* node n's finalizeJob call runs in this step
Finalizes(n) == pc[n] = "pipeline" /\ pc'[n] = "release"

\* C1 (as stated): of two overlapping transition(PENDING -> PROCESSING) calls
\* the one that does not win returns a reason reporting that the status is
\* processing.
C1_LoserReportsProcessing ==
    \A n \in Nodes, m \in Nodes :
        ( /\ n # m
          /\ verdict[m].success /\ Rejected(n) /\ verdict[n].epoch = verdict[m].epoch
          /\ job.status = PROCESSING /\ job.lockedBy = m )
        => verdict[n].kind = "status" /\ verdict[n].status = PROCESSING

\* C1 (amended): no two transition calls made on the same PENDING period of
\* the job both succeed; a succeeding call finds PENDING and leaves the row
\* PROCESSING with locked_by = the caller; a rejected call leaves the row
\* unchanged and its reason either reports the status it found (not pending)
\* or, when it waited for the row lock of the winner, is the message of the
\* error the transaction raised, the row then being PROCESSING for the winner.
C1_ExactlyOneTransitionWins ==
    /\ [](\A n \in Nodes, m \in Nodes :
            n # m /\ verdict[n].success /\ verdict[m].success
            => verdict[n].epoch # verdict[m].epoch)
    /\ [][\A n \in Nodes :
            Returns(n) =>
              IF verdict'[n].success
              THEN /\ job.status = PENDING
                   /\ job'.status = PROCESSING /\ job'.lockedBy = n
              ELSE /\ job' = job
                   /\ Rejected(n)'
                   /\ verdict'[n].kind = "status" =>
                        verdict'[n].status = job.status /\ job.status # PENDING
                   /\ verdict'[n].kind = "error" =>
                        job.status = PROCESSING /\ job.lockedBy \notin {n, NoNode}]_vars

\* C1 witness: a call that waited for the row lock of the winner has returned
\* the transaction's error while the winner's job is PROCESSING.
C1_Witness ==
    \E n \in Nodes, m \in Nodes :
        /\ n # m /\ verdict[m].success /\ verdict[n].kind = "error"
        /\ verdict[n].epoch = verdict[m].epoch
        /\ job.status = PROCESSING /\ job.lockedBy = m

\* C2 (as stated): over its whole life the job is transitioned to PROCESSING
\* at most once.
C2_TransitionedOnce == hist.transitions <= 1

\* C2 (amended): the job is transitioned to PROCESSING at most once per
\* PENDING period: once, plus once for every reset to PENDING by stale-job
\* recovery (none when restart_stale_jobs is false); every transition starts
\* one pipeline run, and a node runs the pipeline only after its own
\* transition succeeded.
C2_OneTransitionPerPendingPeriod ==
    /\ hist.transitions <= 1 + hist.resets
    /\ ~restartStaleJobs => hist.transitions <= 1
    /\ hist.pipelines = hist.transitions
    /\ \A n \in Nodes : InPipeline(n) => verdict[n].success
    /\ \A n \in Nodes, m \in Nodes :
         n # m /\ InPipeline(n) /\ InPipeline(m) => verdict[n].epoch # verdict[m].epoch

\* C2 witness: with restart_stale_jobs the job was reset and transitioned again
C2_Witness ==
    /\ restartStaleJobs /\ hist.transitions = 2 /\ hist.resets >= 1
    /\ hist.deliveries = 2 /\ \E n \in Nodes : InPipeline(n)

\* C3 (as stated): once the status is COMPLETED, FAILED or CANCELLED no
\* operation changes it.
C3_TerminalIsFinal ==
    [][job.status \in Terminal => job'.status = job.status]_vars

AllowedEdges ==
    {<<PENDING, PROCESSING>>, <<PROCESSING, COMPLETED>>, <<PROCESSING, FAILED>>,
     <<PENDING, CANCELLED>>, <<PROCESSING, CANCELLED>>}

\* C4 (as stated): every change of the status is one of the allowed edges
C4_OnlyAllowedEdges ==
    [][job'.status # job.status => <<job.status, job'.status>> \in AllowedEdges]_vars

\* C5 (as stated): a finalize call changes the row only if the status is
\* PROCESSING and locked_by is the calling node.
C5_FinalizeByOwnerOnly ==
    [][\A n \in Nodes :
         Finalizes(n) /\ job' # job
         => job.status = PROCESSING /\ job.lockedBy = n]_vars

Holds(n) == Exists(JobKey) /\ wlock[n] # NoToken /\ redis[JobKey].token = wlock[n]

\* C6: an acquire attempt on a free key stores the caller's fresh token and
\* returns the Lock; an attempt on a held key stores nothing and returns no
\* Lock (null after the last retry); so of two callers racing for a free key
\* exactly one gets the Lock, at most one caller's token is the stored one,
\* and once the owner has released, the other's next attempt succeeds.
C6_OneAcquirerWins ==
    /\ [](Cardinality({n \in Nodes : Holds(n)}) <= 1)
    /\ [][\A n \in Nodes :
            LockAttempt(n) =>
              IF Exists(JobKey)
              THEN /\ redis' = redis /\ wlock'[n] = NoToken
                   /\ lpc'[n] = "attempt" \/ (lpc'[n] = "idle" /\ lret'[n].value = "null")
                   /\ lpc'[n] = "attempt" <=> attempt[n].done < attempt[n].retries
              ELSE /\ lret'[n].value = "lock" /\ lpc'[n] = "holding"
                   /\ Holds(n)'
                   /\ redis'[JobKey].pttl = Ttl(JobKey)
                   /\ \A m \in Nodes \ {n} : wlock[m] # wlock'[n]]_vars
    /\ [][\A n \in Nodes : LockRelease(n) /\ Holds(n) => ~Exists(JobKey)']_vars

\* C6 witness: two callers raced, the second was refused after its retries,
\* the owner released and the refused caller now holds the lock.
C6_Witness ==
    \E n \in Nodes, m \in Nodes :
        /\ n # m /\ lret[n].value = "true"
        /\ lret[m] = [value |-> "lock", refused |-> TRUE] /\ Holds(m)
        /\ attempt[m].retries = DefaultRetries

\* C7: release deletes the key and extend resets its expiry exactly when the
\* stored value is the caller's token; with any other token both return false
\* and leave the stored key, token and expiry as they are.
C7_TokenGuardedReleaseAndExtend ==
    [][\A n \in Nodes :
         /\ LockRelease(n) =>
              IF Holds(n)
              THEN ~Exists(JobKey)' /\ lret'[n].value = "true"
              ELSE redis' = redis /\ lret'[n].value = "false"
         /\ LockExtend(n) =>
              IF Holds(n)
              THEN /\ redis' = [redis EXCEPT ![JobKey].pttl = Ttl(JobKey)]
                   /\ lret'[n].value = "extended"
              ELSE redis' = redis /\ lret'[n].value = "false"]_vars

\* C7 witness: a caller whose lease ran out used its old token while another
\* caller holds the key, and was answered false.
C7_Witness ==
    \E n \in Nodes, m \in Nodes :
        /\ n # m /\ Holds(m) /\ alive[n]
        /\ lret[n].value = "false" /\ wlock[n] # NoToken /\ lpc[n] = "holding"

\* C8: the lease of a caller that died holding it runs out, and the lock is
\* then acquired by a caller that is alive.
HeldByDead(n) == ~alive[n] /\ Exists(JobKey) /\ redis[JobKey].token.node = n
C8_CrashedHolderExpires ==
    \A n \in Nodes :
        HeldByDead(n) ~> (\E m \in Nodes \ {n} : alive[m] /\ Holds(m))

\* C8 witness: the holder died with the lock and another caller has it now
C8_Witness ==
    \E n \in Nodes, m \in Nodes :
        /\ n # m /\ ~alive[n] /\ lret[n].value = "lock" /\ wlock[n] # NoToken
        /\ alive[m] /\ Holds(m)

\* C9: a job left PROCESSING by a crashed node is eventually moved out of
\* PROCESSING; a sweep that found it PROCESSING writes PENDING with the lock
\* fields cleared when restart_stale_jobs is set, and otherwise FAILED with an
\* error message naming the locked_by it found.
Stranded(n) == job.status = PROCESSING /\ job.lockedBy = n /\ ~alive[n]
Recovered(n) ==
    IF restartStaleJobs
    THEN job.status # PROCESSING
    ELSE \/ job.status = FAILED /\ job.errorMessage = [kind |-> "stale", lockedBy |-> n]
         \/ job.status = CANCELLED
FindsNotPending(n) == pc[n] = "txn" /\ rowLock = n /\ job.status # PENDING
C10_NonPendingDeliveryChangesNothing ==
    [][\A n \in Nodes :
         FindsNotPending(n) /\ pc'[n] # pc[n]
         => /\ job' = job
            /\ domainWrites' = domainWrites
            /\ hist'.pipelines = hist.pipelines
            /\ pc'[n] \in {"release", "crashed"}
            /\ pc'[n] = "release" => Rejected(n)' /\ verdict'[n].status = job.status]_vars

\* C10 witness: a redelivery of a FAILED job was rejected and the job is
\* still FAILED.
C10_Witness ==
    \E n \in Nodes :
        /\ pc[n] = "release" /\ verdict[n].kind = "status" /\ verdict[n].status = FAILED
        /\ job.status = FAILED /\ hist.deliveries = 2

\* C11: a worker that was given the Lock goes back to the queue only through
\* its finally block: when it has returned or thrown, whatever the exit path
\* (transition rejected, pipeline done, pipeline error, finalize error), its
\* renewal timer for the job's key is stopped and the key no longer stores a
\* token of the node.
HoldsNothing(n) ==
    /\ wlock[n] = NoToken
    /\ activeLocks[n][JobKey] = NoToken
    /\ ~(Exists(JobKey) /\ redis[JobKey].token.node = n)
PipelineRaises(n) == Finalizes(n) /\ thrown'[n] = "pipeline"
PersistedFailed(row) ==
    /\ row.status = FAILED /\ row.errorMessage.kind = "fatal"
    /\ row.lockedBy = NoNode /\ row.lockedAge = NullAge

FailedWithMessage(row) ==
    /\ row.status = FAILED /\ row.errorMessage # NoMessage
    /\ row.lockedBy = NoNode /\ row.lockedAge = NullAge

\* C12 (as stated): when the pipeline of a job that was not cancelled raises
\* a fatal error, the job is persisted as FAILED with the error message and
\* cleared locked_by/locked_at, and the error is rethrown.
C12_FatalErrorPersistsFailed ==
    [][\A n \in Nodes :
         PipelineRaises(n) /\ job.status # CANCELLED => FailedWithMessage(job')]_vars

\* C12 (amended): when the pipeline raises a fatal error the orchestrator
\* calls finalize(FAILED) and rethrows that error; the record becomes FAILED
\* with the error message and cleared locked_by/locked_at exactly when its
\* status is still PROCESSING at that moment and is left unchanged otherwise;
\* when finalize itself raises, the record is unchanged and the error of
\* finalize is thrown.
C12_FatalErrorFinalizesWhenProcessing ==
    [][\A n \in Nodes :
         /\ PipelineRaises(n) =>
              /\ pc'[n] = "release"
              /\ IF job.status = PROCESSING
                 THEN PersistedFailed(job') /\ job'.completedAt
                 ELSE job' = job
         /\ (Finalizes(n) /\ thrown'[n] = "finalize") => job' = job
         /\ (pc[n] = "release" /\ pc'[n] = "release") => thrown'[n] = thrown[n]]_vars

\* C12 witness: the pipeline error is persisted and on its way to the queue
C12_Witness ==
    \E n \in Nodes :
        /\ pc[n] = "release" /\ thrown[n] = "pipeline"
        /\ PersistedFailed(job) /\ job.completedAt

\* ------------------------------------------------------ idempotent creation
WithKey(key) ==
    {i \in Requests : importJobs[i].exists /\ importJobs[i].idempotencyKey = key}
Arrives(r) == cpc[r] = "idle" /\ cpc'[r] # "idle"
CarriesKnownKey(r) ==
    /\ creq'[r].idempotencyKey # NoIdemKey
    /\ WithKey(creq'[r].idempotencyKey) # {}

C14_IdempotencyKeyUnique ==
    \A i \in Requests, j \in Requests :
        (/\ i # j
         /\ importJobs[i].exists /\ importJobs[j].exists
         /\ importJobs[i].idempotencyKey # NoIdemKey)
        => importJobs[i].idempotencyKey # importJobs[j].idempotencyKey

\* two concurrent requests with one key both passed the lookup; the insert of
\* the second was rejected
C14_Witness ==
    \E r \in Requests, i \in Requests :
        /\ r # i
        /\ creq[r].idempotencyKey = creq[i].idempotencyKey
        /\ creq[r].idempotencyKey # NoIdemKey
        /\ importJobs[i].exists /\ cpc[r] = "failed" /\ ~importJobs[r].exists

\* ------------------------------------------------------------ row counters
\* C15: in every persisted state of an import job, successful_rows +
\* failed_rows + skipped_rows <= processed_rows <= total_rows.
C15_CountersOrdered ==
    /\ jobRow.successfulRows + jobRow.failedRows + jobRow.skippedRows
          <= jobRow.processedRows
    /\ jobRow.processedRows <= jobRow.totalRows

\* C16: the errors list persisted on a job never holds more than 100 entries;
\* a completed job stores the first 100 of the row errors its input had, and
\* every failing row is counted in failed_rows whether its error is stored or
\* not.
C16_ErrorsCapped ==
    /\ jobRow.errors <= MaxErrors
    /\ jobRow.status = COMPLETED =>
          /\ jobRow.errors = Min(ghost.errors, MaxErrors)
          /\ jobRow.failedRows >= ghost.failures

\* a completed import whose input had more than 100 row errors
C16_Witness ==
    /\ jobRow.status = COMPLETED
    /\ ghost.errors > MaxErrors
    /\ jobRow.errors = MaxErrors
    /\ jobRow.failedRows > MaxErrors

\* ------------------------------------------------------- idempotent upsert
\* C17: importing a file twice leaves the domain table it targets (users,
\* articles or comments) in the state the first import left it in: the same
\* rows with the same field values, and no duplicate.
C17_ImportTwiceIsImportOnce == imports = 2 => table = afterFirst

\* ------------------------------------------------- lock fields of the row
LockFieldsNull(row) == row.lockedBy = NoNode /\ row.lockedAge = NullAge

\* C18 (as stated): a job in a terminal state (COMPLETED, FAILED, CANCELLED)
\* has null locked_by and null locked_at, whichever operation put it there.
C18_TerminalHoldsNoLock == job.status \in Terminal => LockFieldsNull(job)

\* C18 (amended): a job that is COMPLETED or FAILED has null locked_by and
\* null locked_at, whether finalize, stale-job recovery or forced cleanup put
\* it there.
C18_FinishedHoldsNoLock == job.status \in {COMPLETED, FAILED} => LockFieldsNull(job)

\* the owner has just finalized the job it had locked
C18_Witness ==
    \E n \in Nodes :
        /\ pc[n] = "release" /\ verdict[n].success
        /\ job.status = COMPLETED /\ LockFieldsNull(job)

\* ------------------------------------------------- immutability when done
\* the stored fields of the row: timestamps count as set or null, their age
\* is not a field
Stored(row) ==
    [status |-> row.status, lockedBy |-> row.lockedBy,
     lockedAt |-> row.lockedAge # NullAge, startedAt |-> row.startedAge # NullAge,
     completedAt |-> row.completedAt, errorMessage |-> row.errorMessage,
     processedRows |-> row.processedRows]

\* C19: once a job is COMPLETED or FAILED no field of its record changes any
\* more, whichever node issues a progress write, a finalize or a sweep later.
C19_FinishedIsImmutable ==
    [][job.status \in {COMPLETED, FAILED} => Stored(job') = Stored(job)]_vars

\* ------------------------------------------------- the sweep's write
SweepWrites(n) == spc[n] = "handle" /\ spc'[n] # "handle" /\ job' # job

\* C20: a stale-job sweep changes a job only if the job is stale at the moment
\* of the write: PROCESSING with started_at older than the stale threshold, or
\* locked with locked_at older than the stale-lock threshold while PENDING or
\* PROCESSING.
C20_SweepWritesOnlyStaleJobs ==
    [][\A n \in Nodes : SweepWrites(n) => IsStale(job)]_vars

\* ------------------------------------------------- one sweep at a time
Sweeping(n) == alive[n] /\ spc[n] \in {"find", "handle"}
HoldsCleanup(n) ==
    Exists(CleanupKey) /\ slock[n] # NoToken /\ redis[CleanupKey].token = slock[n]

\* C21: no two nodes run the stale-job sweep at the same time: a node scans
\* and updates jobs only while it holds the lease on stale-job-cleanup.
C21_OneSweepAtATime ==
    /\ \A n \in Nodes, m \in Nodes : (Sweeping(n) /\ Sweeping(m)) => n = m
    /\ \A n \in Nodes : Sweeping(n) => HoldsCleanup(n)

\* ---------------------------------------------------------------- C22
\* record j of the batch carries a key that an earlier record carries
IsLaterDuplicate(kind, f, j) ==
    \E i \in 1 .. j - 1 : BatchKey(kind, f[i]) = BatchKey(kind, f[j])
FirstRowOf(kind, f, j) ==
    CHOOSE i \in 1 .. j :
        /\ BatchKey(kind, f[i]) = BatchKey(kind, f[j])
        /\ \A h \in 1 .. i - 1 : BatchKey(kind, f[h]) # BatchKey(kind, f[j])
\* the batch without its later duplicates
RECURSIVE FirstOccurrences(_, _)
FirstOccurrences(kind, f) ==
    IF f = <<>> THEN <<>>
    ELSE LET front == SubSeq(f, 1, Len(f) - 1)
         IN  IF IsLaterDuplicate(kind, f, Len(f))
               THEN FirstOccurrences(kind, front)
               ELSE Append(FirstOccurrences(kind, front), f[Len(f)])

\* C22: in a batch of users or articles, of the records that carry the same
\* natural key (emails compared lowercased) only the first is upserted: the
\* store ends as if the later ones were not in the batch, each later one is
\* counted as failed with an error on the key field that names the row of
\* the first, and the first, when its turn upserts it, is stored with its
\* own values.
C22_OnlyFirstOfKeyUpserted ==
    [][(imports' = imports + 1 /\ resourceType # "comments") =>
         LET kind == resourceType
             firsts == FirstOccurrences(kind, file)
         IN  /\ table' = UpsertBatch(kind, firsts, table, uuids).table
             /\ \A j \in 1 .. Len(file) :
                  IsLaterDuplicate(kind, file, j) =>
                    [row |-> j, field |-> KeyField(kind),
                     firstRow |-> FirstRowOf(kind, file, j)] \in lastResult'.errors
             /\ lastResult'.successful + lastResult'.failed = Len(file)
             /\ lastResult'.successful <= Len(firsts)
             /\ \A i \in 1 .. Len(file) :
                  (~IsLaterDuplicate(kind, file, i) /\ file[i].refsExist) =>
                    \E r \in UpsertBatch(kind, SubSeq(file, 1, i), table, uuids).table :
                        r.key = file[i].key /\ r.val = file[i].val]_vars

\* a file of two users whose emails differ in letter case only and whose
\* other fields differ has been imported: one user is stored, the first
C22_Witness ==
    /\ imports = 1
    /\ resourceType = "users"
    /\ Len(file) = 2
    /\ file[1].key # file[2].key
    /\ ToLowerCase(file[1].key) = ToLowerCase(file[2].key)
    /\ file[1].val # file[2].val
    /\ lastResult.successful = 1
    /\ lastResult.failed = 1
    /\ [row |-> 2, field |-> "email", firstRow |-> 1] \in lastResult.errors
    /\ \A r \in table : r.key = file[1].key /\ r.val = file[1].val
    /\ table # {}

\* ---------------------------------------------------------------- C23
AllBatches == UNION {BatchMenu(f, z) : f \in Formats, z \in {1, BatchSize}}

\* C23: when the transaction of a batch fails (in the upsert loop or at
\* commit), every row of the batch is counted as failed and none as
\* successful, the error is recorded once, and the stream goes on.
C23_FailedBatchIsAllFailed ==
    [][\A b \in AllBatches :
         (PipeBatch(b) /\ b.outcome # "commit") =>
            /\ counters'.successfulRows = counters.successfulRows
            /\ counters'.failedRows = counters.failedRows + b.size
            /\ ghost'.errors <= ghost.errors + 1
            /\ ppc' = "stream"]_vars

\* ---------------------------------------------------------------- C24
RowFailures(b) == b.bad + b.invalid + b.rowFails

C26_PersistedCountersNeverDecrease ==
    [][/\ jobRow'.totalRows >= jobRow.totalRows
       /\ jobRow'.processedRows >= jobRow.processedRows
       /\ jobRow'.successfulRows >= jobRow.successfulRows
       /\ jobRow'.failedRows >= jobRow.failedRows
       /\ jobRow'.skippedRows >= jobRow.skippedRows]_vars

\* ---------------------------------------------------------------- C27
CreatedAtOf(id) == (CHOOSE r \in exportRows : r.id = id).createdAt
Before(a, b) ==
    \/ CreatedAtOf(a) < CreatedAtOf(b)
    \/ CreatedAtOf(a) = CreatedAtOf(b) /\ a < b

\* C27: a finished export has written every row that matches the filters
\* exactly once, in ascending (created_at, id) order, and as many rows as
\* the count query returned.
C27_ExportsEveryRowOnceInOrder ==
    epc = "done" =>
       /\ \A r \in Matching(exportRows) :
            Cardinality({i \in DOMAIN emitted : emitted[i] = r.id}) = 1
       /\ Len(emitted) = exportTotal
       /\ \A i \in DOMAIN emitted, j \in DOMAIN emitted :
            i < j => Before(emitted[i], emitted[j])

\* ---------------------------------------------------------------- C28
\* the stored export job is COMPLETED and its expires_at is not later than
\* one hour from now
RefreshDue ==
    /\ exportJob.status = COMPLETED
    /\ exportJob.expiresAt # NoExpiry
    /\ exportJob.expiresAt <= now + RefreshHours

C29_CancelledStaysCancelled ==
    [][job.status = CANCELLED =>
         /\ job'.status = CANCELLED
         /\ \A n \in Nodes :
              ~(pc[n] \notin {"pipeline", "progress"} /\ pc'[n] = "pipeline")]_vars

\* ---------------------------------------------------------------- C30
\* C30: every value in a job's errors list whose original is a string of
\* more than 100 characters is stored as its first 100 characters followed
\* by an ellipsis, whichever stage recorded the error.
C30_LongValuesStoredTruncated ==
    \A i \in DOMAIN jobErrors :
        jobErrors[i].length > TruncateAt =>
            jobErrors[i].value = [chars |-> TruncateAt, ellipsis |-> TRUE]

\* ============================================ withLock(resourceKey, fn, options)
\* what a withLock call leaves alone
notWith == <<alive, job, rowLock, pc, verdict, batches, thrown, sweepVars,
             forceVars, restartStaleJobs, domainWrites, hist, lpc, lret,
             createVars, pipeVars, upsertVars, exportVars, getVars, errorVars,
             savepointVars, streamVars, transportVars, taskVars, destroyVars,
             progressVars>>

\* how fn can end: `return await fn()` returns its value or rethrows its error
FnOutcomes == {"value", "fn_error"}

\* try { return await fn() } finally { await this.releaseLock(lock) }: where
\* control goes when fn has ended
AfterFnFinallyOnReturn(outcome) == IF outcome = "value" THEN "finally" ELSE "idle"
AfterFn(outcome) == "finally"

\* const lock = await this.acquireLock(resourceKey, options)
WithLockCall(n, retries) ==
    /\ alive[n] /\ wpc[n] = "idle"
    /\ wpc' = [wpc EXCEPT ![n] = "acquire"]
    /\ attempt' = [attempt EXCEPT ![n] = [done |-> 0, retries |-> retries]]
    /\ fnRan' = [fnRan EXCEPT ![n] = FALSE]
    /\ fnOutcome' = [fnOutcome EXCEPT ![n] = "none"]
    /\ wres' = [wres EXCEPT ![n] = "none"]
    /\ UNCHANGED <<lockVars, wlock>>
    /\ UNCHANGED notWith

\* One pass of acquireLock's loop.  With the Lock, withLock enters the try
\* block and calls fn; with null after the last attempt it throws
\* `Failed to acquire lock for resource`.
WithLockAcquire(n) ==
    /\ alive[n] /\ wpc[n] = "acquire"
    /\ IF SetNxOk(JobKey)
       THEN /\ AcquiredState(n, JobKey)
            /\ wlock' = [wlock EXCEPT ![n] = NewToken(n)]
            /\ wpc' = [wpc EXCEPT ![n] = "fn"]
            /\ fnRan' = [fnRan EXCEPT ![n] = TRUE]
            /\ UNCHANGED <<attempt, wres>>
       ELSE IF attempt[n].done < attempt[n].retries
            THEN /\ attempt' = [attempt EXCEPT ![n].done = @ + 1]
                 /\ UNCHANGED <<lockVars, wlock, wpc, fnRan, wres>>
            ELSE /\ wres' = [wres EXCEPT ![n] = "lock_error"]
                 /\ wpc' = [wpc EXCEPT ![n] = "idle"]
                 /\ attempt' = [attempt EXCEPT ![n] = [done |-> 0, retries |-> 0]]
                 /\ UNCHANGED <<lockVars, wlock, fnRan>>
    /\ UNCHANGED fnOutcome
    /\ UNCHANGED notWith

\* fn returns or throws
FnEnds(n, outcome) ==
    /\ alive[n] /\ wpc[n] = "fn"
    /\ fnOutcome' = [fnOutcome EXCEPT ![n] = outcome]
    /\ wpc' = [wpc EXCEPT ![n] = AfterFn(outcome)]
    /\ wres' = [wres EXCEPT ![n] = IF AfterFn(outcome) = "idle" THEN outcome ELSE @]
    /\ UNCHANGED <<lockVars, wlock, attempt, fnRan>>
    /\ UNCHANGED notWith

\* finally { await this.releaseLock(lock) }, then the value of fn is returned
\* or its error rethrown
WithLockFinally(n) ==
    /\ alive[n] /\ wpc[n] = "finally"
    /\ ReleasedState(n, JobKey, wlock[n])
    /\ wlock' = [wlock EXCEPT ![n] = NoToken]
    /\ wres' = [wres EXCEPT ![n] = fnOutcome[n]]
    /\ wpc' = [wpc EXCEPT ![n] = "idle"]
    /\ attempt' = [attempt EXCEPT ![n] = [done |-> 0, retries |-> 0]]
    /\ UNCHANGED <<fnRan, fnOutcome>>
    /\ UNCHANGED notWith

InitWith ==
    /\ InitNoPipe
    /\ InitNoUpsert
    /\ InitNoExport
    /\ InitNoGet
    /\ lpc = [n \in Nodes |-> "unused"]
    /\ restartStaleJobs = FALSE
    /\ InitShared

NextWith ==
    \/ \E n \in Nodes, r \in {0, DefaultRetries} : WithLockCall(n, r)
    \/ \E n \in Nodes : WithLockAcquire(n)
    \/ \E n \in Nodes, o \in FnOutcomes : FnEnds(n, o)
    \/ \E n \in Nodes : WithLockFinally(n)
    \/ \E n \in Nodes : RenewLockError(n, JobKey)
    \/ LeaseRunsOut(JobKey)

SpecWith == InitWith /\ [][NextWith]_vars

notSavepoint == <<lockVars, alive, job, rowLock, workerVars, sweepVars, forceVars,
                  restartStaleJobs, domainWrites, hist, clientVars, createVars,
                  pipeVars, upsertVars, exportVars, getVars, errorVars, withVars,
                  streamVars, transportVars, taskVars, destroyVars,
                  progressVars>>

MaxBatchRows == 3
\* the error a record's INSERT / UPDATE raises: none, a unique violation
\* (another transaction committed the key first), an enum error, any other
SaveFaults == {"none", "duplicate key", "invalid enum", "other"}
Batches == UNION {[1 .. len -> SaveFaults] : len \in 1 .. MaxBatchRows}

NewTx == [rows |-> {}, savepoints |-> {}, aborted |-> FALSE]
Ran(t) == [tx |-> t, raised |-> FALSE]
Raised(t) == [tx |-> t, raised |-> TRUE]

\* PostgreSQL: a statement that raises puts the transaction in the aborted
\* state, in which every statement but ROLLBACK [TO SAVEPOINT] raises
\* `current transaction is aborted`.
\* queryRunner.query(`SAVEPOINT user_<line>`)
SavepointQuery(t, name) ==
    IF t.aborted THEN Raised(t)
    ELSE Ran([t EXCEPT !.savepoints =
                 {s \in @ : s.name # name} \cup {[name |-> name, rows |-> t.rows]}])

\* queryRunner.manager.save(entity): the row of record `name` is written, or
\* the statement raises and writes nothing
SaveRecord(t, name, fault) ==
    IF t.aborted THEN Raised(t)
    ELSE IF fault # "none" THEN Raised([t EXCEPT !.aborted = TRUE])
    ELSE Ran([t EXCEPT !.rows = @ \cup {name}])

\* queryRunner.query(`RELEASE SAVEPOINT user_<line>`)
ReleaseSavepoint(t, name) ==
    IF t.aborted \/ ~\E s \in t.savepoints : s.name = name THEN Raised([t EXCEPT !.aborted = TRUE])
    ELSE Ran([t EXCEPT !.savepoints = {s \in @ : s.name # name}])

\* queryRunner.query(`ROLLBACK TO SAVEPOINT user_<line>`): the rows are what
\* they were at the savepoint, the transaction is usable again
RollbackNothing(t, name) == Ran(t)
RollbackToSavepoint(t, name) ==
    IF \E s \in t.savepoints : s.name = name
    THEN Ran([t EXCEPT !.rows = (CHOOSE s \in t.savepoints : s.name = name).rows,
                       !.aborted = FALSE])
    ELSE Raised([t EXCEPT !.aborted = TRUE])

\* One pass of the loop of upsertUsers for the record of line `name`: the try
\* block (savepoint, save, successful++, release) and its catch block
\* (rollback to the savepoint, failed++, errors.push); `thrown` when the
\* catch block itself raises, which ends upsertUsers.
UpsertRow(t, c, name, fault) ==
    LET s1 == SavepointQuery(t, name)
        s2 == IF s1.raised THEN s1 ELSE SaveRecord(s1.tx, name, fault)
        s3 == IF s2.raised THEN s2 ELSE ReleaseSavepoint(s2.tx, name)
        saved == IF s2.raised THEN c ELSE [c EXCEPT !.successful = @ + 1]
        s4 == RollbackToSavepoint(s3.tx, name)
    IN  IF ~s3.raised THEN [tx |-> s3.tx, count |-> saved, thrown |-> FALSE]
        ELSE IF s4.raised THEN [tx |-> s4.tx, count |-> saved, thrown |-> TRUE]
        ELSE [tx |-> s4.tx,
              count |-> [saved EXCEPT !.failed = @ + 1, !.errors = Append(@, name)],
              thrown |-> FALSE]

\* the catch block of upsertRecords: rollbackTransaction, `failed++` and an
\* error for every record; `counted` is what the try block had assigned
MarkAllFailed(counted) ==
    [counted EXCEPT !.failed = @ + Len(spRecords),
                    !.errors = @ \o [i \in 1 .. Len(spRecords) |-> i]]

\* the next record of the batch is handled
UpsertNextRow ==
    /\ spPos = "loop" /\ spLine <= Len(spRecords)
    /\ LET r == UpsertRow(spTx, spCount, spLine, spRecords[spLine])
       IN  IF r.thrown
           THEN /\ spTx' = NewTx
                /\ spCount' = MarkAllFailed([successful |-> 0, failed |-> 0, errors |-> <<>>])
                /\ spPos' = "rolled back"
                /\ UNCHANGED spLine
           ELSE /\ spTx' = r.tx
                /\ spCount' = r.count
                /\ spLine' = spLine + 1
                /\ UNCHANGED spPos
    /\ UNCHANGED <<spRecords, spDb>>
    /\ UNCHANGED notSavepoint

\* queryRunner.commitTransaction(): COMMIT of an aborted transaction rolls
\* it back without an error
CommitBatch ==
    /\ spPos = "loop" /\ spLine > Len(spRecords)
    /\ spDb' = IF spTx.aborted THEN spDb ELSE spDb \cup spTx.rows
    /\ spTx' = NewTx
    /\ spPos' = "committed"
    /\ UNCHANGED <<spRecords, spLine, spCount>>
    /\ UNCHANGED notSavepoint

\* commitTransaction raises: the catch block of upsertRecords
CommitRaises ==
    /\ spPos = "loop" /\ spLine > Len(spRecords)
    /\ spTx' = NewTx
    /\ spCount' = MarkAllFailed(spCount)
    /\ spPos' = "rolled back"
    /\ UNCHANGED <<spRecords, spLine, spDb>>
    /\ UNCHANGED notSavepoint

\* upsertRecords(records, USERS): connect, startTransaction
UpsertRecordsStart(b) ==
    /\ spPos = "idle"
    /\ spRecords' = b
    /\ spLine' = 1
    /\ spTx' = NewTx
    /\ spCount' = [successful |-> 0, failed |-> 0, errors |-> <<>>]
    /\ spPos' = "loop"
    /\ UNCHANGED spDb
    /\ UNCHANGED notSavepoint

InitSavepoint ==
    /\ InitNoPipe
    /\ InitNoUpsert
    /\ InitNoExport
    /\ InitNoGet
    /\ lpc = [n \in Nodes |-> "unused"]
    /\ restartStaleJobs = FALSE
    /\ InitShared

NextSavepoint ==
    \/ \E b \in Batches : UpsertRecordsStart(b)
    \/ UpsertNextRow
    \/ CommitBatch
    \/ CommitRaises

SpecSavepoint == InitSavepoint /\ [][NextSavepoint]_vars

\* C32: in a batch that commits, a record whose save raises is rolled back
\* to its savepoint and nothing else: the rows saved before it stay in the
\* transaction and are committed with the batch, the records after it are
\* handled as usual, and the record is counted as failed once, with one error.
FaultyLines == {i \in 1 .. Len(spRecords) : spRecords[i] # "none"}
SavedLines == (1 .. Len(spRecords)) \ FaultyLines
TimesListed(i) == Cardinality({j \in 1 .. Len(spCount.errors) : spCount.errors[j] = i})
C32_RowErrorUndoesOnlyThatRow ==
    /\ [](spPos = "committed" =>
            /\ spDb = SavedLines
            /\ spCount.successful = Cardinality(SavedLines)
            /\ spCount.failed = Cardinality(FaultyLines)
            /\ \A i \in FaultyLines : TimesListed(i) = 1
            /\ \A i \in SavedLines : TimesListed(i) = 0)
    /\ [][(spPos = "loop" /\ spLine <= Len(spRecords) /\ spRecords[spLine] # "none") =>
            /\ spTx'.rows = spTx.rows /\ ~spTx'.aborted
            /\ spPos' = "loop" /\ spLine' = spLine + 1
            /\ spCount' = [spCount EXCEPT !.failed = @ + 1,
                                          !.errors = Append(@, spLine)]]_vars

\* C32 witness: the second of three records raised a unique violation and
\* the batch committed the first and the third.
C32_Witness ==
    /\ spPos = "committed"
    /\ Len(spRecords) = 3 /\ spRecords[2] = "duplicate key"
    /\ spDb = {1, 3}
    /\ spCount.successful = 2 /\ spCount.failed = 1 /\ spCount.errors = <<2>>

\* ======================= createExportStream: the reader and its PassThrough
\* what the export's record stream leaves alone
notStream == <<lockVars, alive, job, rowLock, workerVars, sweepVars, forceVars,
               restartStaleJobs, domainWrites, hist, clientVars, createVars,
               pipeVars, upsertVars, exportVars, getVars, errorVars, withVars,
               savepointVars, transportVars, taskVars, destroyVars,
               progressVars>>

\* rows of the exported table; highWaterMark of the object-mode PassThrough
\* (the platform's default is 16 objects; the model runs with a small value)
MaxStreamRows == 8
HighWaterMark == 2

\* output.write(formattedRecord) returns false when the buffer has reached
\* highWaterMark: the writer should then wait for 'drain'
WriteReturns(len) == len < HighWaterMark

\* what streamRecords does with the value write() returned: nothing
AwaitsDrain(returned) == FALSE

\* createExportStream: new PassThrough({objectMode: true}), streamRecords
\* started without await
CreateExportStream(rows) ==
    /\ ~hasMore /\ streamOffset = 0 /\ tableRows = 0 /\ uploaded = 0
    /\ rows > 0
    /\ tableRows' = rows
    /\ hasMore' = TRUE
    /\ UNCHANGED <<streamOffset, buffered, uploaded>>
    /\ UNCHANGED notStream

\* One pass of `while (hasMore)`: fetchRecordsBatch(offset, batchSize), an
\* output.write for every record, offset += records.length; output.end()
\* after the last page.  The pass starts as soon as the query has answered,
\* unless the writer waits for the buffer to drain.
StreamRecordsPage ==
    /\ hasMore
    /\ AwaitsDrain(WriteReturns(buffered)) => buffered < HighWaterMark
    /\ LET len == Min(PageSize, tableRows - streamOffset)
       IN  /\ buffered' = buffered + len
           /\ streamOffset' = streamOffset + len
           /\ hasMore' = (len = PageSize)
    /\ UNCHANGED <<tableRows, uploaded>>
    /\ UNCHANGED notStream

\* The downstream stages (encoder, metrics, byte counter, multipart upload)
\* take one record from the PassThrough.
DownstreamReads ==
    /\ buffered > 0
    /\ buffered' = buffered - 1
    /\ uploaded' = uploaded + 1
    /\ UNCHANGED <<tableRows, streamOffset, hasMore>>
    /\ UNCHANGED notStream

InitStream ==
    /\ InitNoPipe
    /\ InitNoUpsert
    /\ InitNoExport
    /\ InitNoGet
    /\ lpc = [n \in Nodes |-> "unused"]
    /\ restartStaleJobs = FALSE
    /\ InitShared

NextStream ==
    \/ \E rows \in 1 .. MaxStreamRows : CreateExportStream(rows)
    \/ StreamRecordsPage
    \/ DownstreamReads

SpecStream == InitStream /\ [][NextStream]_vars

\* C33: the reader produces a page only as the downstream stages make room,
\* so the records buffered between the reader and the upload never exceed the
\* PassThrough's highWaterMark plus one page, however many rows are exported.
C33_BufferedRecordsBounded == buffered <= HighWaterMark + PageSize

\* ================== the lock service when a Redis command is rejected
\* what a caller of the lock service leaves alone when commands can fail
notTransport == <<alive, job, rowLock, pc, verdict, batches, thrown, sweepVars,
                  forceVars, restartStaleJobs, domainWrites, hist, createVars,
                  pipeVars, upsertVars, exportVars, getVars, errorVars, withVars,
                  savepointVars, streamVars, taskVars, destroyVars,
                  progressVars>>

\* what the catch blocks of acquireLock (after the last attempt), releaseLock
\* and extendLock hand to the caller: the value of "not acquired" / "not
\* owned"
CaughtAs(op) == IF op = "acquire" THEN "null" ELSE "false"

\* acquireLock(key, {retries})
AcquireCall(n, retries) ==
    /\ alive[n] /\ lpc[n] = "idle"
    /\ lpc' = [lpc EXCEPT ![n] = "attempt"]
    /\ attempt' = [attempt EXCEPT ![n] = [done |-> 0, retries |-> retries]]
    /\ raised' = [raised EXCEPT ![n] = FALSE]
    /\ lret' = [lret EXCEPT ![n] = NoReturn]
    /\ UNCHANGED <<lockVars, wlock>>
    /\ UNCHANGED notTransport

\* One pass of acquireLock's loop; `rejected`: redis.set rejects with a
\* transport error, which the catch block logs before the next attempt or
\* the `return null` after the loop.
AcquireAttempt(n, rejected) ==
    /\ alive[n] /\ lpc[n] = "attempt"
    /\ raised' = [raised EXCEPT ![n] = rejected]
    /\ IF ~rejected /\ SetNxOk(JobKey)
       THEN /\ AcquiredState(n, JobKey)
            /\ wlock' = [wlock EXCEPT ![n] = NewToken(n)]
            /\ lret' = [lret EXCEPT ![n].value = "lock"]
            /\ lpc' = [lpc EXCEPT ![n] = "holding"]
            /\ UNCHANGED attempt
       ELSE IF attempt[n].done < attempt[n].retries
            THEN /\ attempt' = [attempt EXCEPT ![n].done = @ + 1]
                 /\ UNCHANGED <<lockVars, wlock, lret, lpc>>
            ELSE /\ lret' = [lret EXCEPT ![n] =
                               [value |-> IF rejected THEN CaughtAs("acquire") ELSE "null",
                                refused |-> ~rejected]]
                 /\ lpc' = [lpc EXCEPT ![n] = "idle"]
                 /\ attempt' = [attempt EXCEPT ![n] = [done |-> 0, retries |-> 0]]
                 /\ UNCHANGED <<lockVars, wlock>>
    /\ UNCHANGED notTransport

\* releaseLock(lock): stopLockRenewal, then the script; `rejected`:
\* redis.eval rejects and the catch block returns false
ReleaseCall(n, rejected) ==
    /\ alive[n] /\ lpc[n] = "holding"
    /\ raised' = [raised EXCEPT ![n] = rejected]
    /\ activeLocks' = [activeLocks EXCEPT ![n][JobKey] = NoToken]
    /\ redis' = IF rejected THEN redis ELSE ReleaseScript(JobKey, wlock[n])
    /\ lret' = [lret EXCEPT ![n] =
                  [value |-> IF rejected THEN CaughtAs("release")
                             ELSE IF ScriptResult(JobKey, wlock[n]) = 1 THEN "true"
                             ELSE "false",
                   refused |-> FALSE]]
    /\ wlock' = [wlock EXCEPT ![n] = NoToken]
    /\ lpc' = [lpc EXCEPT ![n] = "idle"]
    /\ attempt' = [attempt EXCEPT ![n] = [done |-> 0, retries |-> 0]]
    /\ UNCHANGED notTransport

\* extendLock(lock, ttlMs) by the holder of the Lock; `rejected`: redis.eval
\* rejects and the catch block returns false
ExtendCall(n, rejected) ==
    /\ alive[n] /\ lpc[n] = "holding"
    /\ raised' = [raised EXCEPT ![n] = rejected]
    /\ redis' = IF rejected THEN redis ELSE ExtendScript(JobKey, wlock[n])
    /\ lret' = [lret EXCEPT ![n] =
                  [value |-> IF rejected THEN CaughtAs("extend")
                             ELSE IF ScriptResult(JobKey, wlock[n]) = 1 THEN "extended"
                             ELSE "false",
                   refused |-> FALSE]]
    /\ UNCHANGED <<activeLocks, wlock, lpc, attempt>>
    /\ UNCHANGED notTransport

InitTransport ==
    /\ InitNoPipe
    /\ InitNoUpsert
    /\ InitNoExport
    /\ InitNoGet
    /\ lpc = [n \in Nodes |-> "idle"]
    /\ restartStaleJobs = FALSE
    /\ InitShared

NextTransport ==
    \/ \E n \in Nodes, r \in {0, DefaultRetries} : AcquireCall(n, r)
    \/ \E n \in Nodes, rejected \in BOOLEAN : AcquireAttempt(n, rejected)
    \/ \E n \in Nodes, rejected \in BOOLEAN : ReleaseCall(n, rejected)
    \/ \E n \in Nodes, rejected \in BOOLEAN : ExtendCall(n, rejected)
    \/ LeaseRunsOut(JobKey)

SpecTransport == InitTransport /\ [][NextTransport]_vars

\* C34: a call of acquire, release or extend that ended on a rejected Redis
\* command has thrown that error to its caller: it has not returned null or
\* false, the answers that mean "held by another node" and "token does not
\* match".
CallEnded(n) == lpc[n] # "attempt" /\ lret[n] # NoReturn
C34_TransportErrorsPropagate ==
    \A n \in Nodes :
        (CallEnded(n) /\ raised[n]) => lret[n].value \notin {"null", "false"}

\* C35: once the job's status is terminal, whoever made it so, no batch of
\* the job is committed to the domain tables any more.
C35_NoDomainWritesAfterTerminal ==
    [][job.status \in Terminal => domainWrites' = domainWrites]_vars

\* C36: a COMPLETED import job accounts for every input row exactly once:
\* successful_rows + failed_rows + skipped_rows = total_rows.
C36_CompletedCountersAddUp ==
    jobRow.status = COMPLETED =>
        jobRow.successfulRows + jobRow.failedRows + jobRow.skippedRows = jobRow.totalRows

\* =================== several callers of the lock service in one process
\* what the callers inside one process leave alone
notTasks == <<alive, job, rowLock, workerVars, sweepVars, forceVars,
              restartStaleJobs, domainWrites, hist, clientVars, createVars,
              pipeVars, upsertVars, exportVars, getVars, errorVars, withVars,
              savepointVars, streamVars, transportVars, destroyVars,
              progressVars>>

Tasks == 1 .. NumTasks
\* the process whose DistributedLockService instance the tasks share
Proc == 1

\* `${this.nodeId}:${uuidv4()}`: a token of the process that no lease, timer
\* or Lock object of a task holds
TaskToken ==
    LET used == {redis[JobKey].token.seq, activeLocks[Proc][JobKey].seq}
                  \cup {tlock[t].seq : t \in Tasks} \cup {f.seq : f \in failedRenewals}
    IN  [node |-> Proc, seq |-> CHOOSE s \in 1 .. (2 * NumTasks + 4) :
                                   s \notin used /\ \A u \in 1 .. (s - 1) : u \in used]

\* stopLockRenewal(lockKey): the timer stored under the key is cleared and
\* the entry deleted, whichever Lock the timer belongs to
StopLockRenewal(timers, k, tok) == [timers EXCEPT ![k] = NoToken]

\* acquireLock(key, {retries: 0}) by a task: SET NX PX, startLockRenewal
\* (activeLocks.set(lock.key, intervalId)); null when the key is held
TaskAcquire(t) ==
    /\ tpc[t] = "idle"
    /\ IF SetNxOk(JobKey)
       THEN /\ redis' = [redis EXCEPT ![JobKey] = [token |-> TaskToken, pttl |-> Ttl(JobKey)]]
            /\ activeLocks' = [activeLocks EXCEPT ![Proc][JobKey] = TaskToken]
            /\ tlock' = [tlock EXCEPT ![t] = TaskToken]
            /\ tpc' = [tpc EXCEPT ![t] = "holding"]
       ELSE UNCHANGED <<lockVars, tlock, tpc>>
    /\ UNCHANGED failedRenewals
    /\ UNCHANGED notTasks

\* releaseLock(lock) by the task that was given the Lock:
\* stopLockRenewal(lock.key), then the compare-and-delete script
TaskRelease(t) ==
    /\ tpc[t] = "holding"
    /\ activeLocks' = [activeLocks EXCEPT ![Proc] = StopLockRenewal(@, JobKey, tlock[t])]
    /\ redis' = ReleaseScript(JobKey, tlock[t])
    /\ failedRenewals' = failedRenewals \ {tlock[t]}
    /\ tlock' = [tlock EXCEPT ![t] = NoToken]
    /\ tpc' = [tpc EXCEPT ![t] = "idle"]
    /\ UNCHANGED notTasks

\* The renewal timer stored under the key fires and its extendLock returns
\* false (redis.eval rejected, or the stored token is another one): the
\* callback calls stopLockRenewal(lock.key).
RenewalFails(rejected) ==
    LET tok == activeLocks[Proc][JobKey]
    IN  /\ tok # NoToken
        /\ rejected \/ ScriptResult(JobKey, tok) = 0
        /\ activeLocks' = [activeLocks EXCEPT ![Proc] = StopLockRenewal(@, JobKey, tok)]
        /\ failedRenewals' = failedRenewals \cup {tok}
        /\ UNCHANGED <<redis, tlock, tpc>>
        /\ UNCHANGED notTasks

InitTasks ==
    /\ InitNoPipe
    /\ InitNoUpsert
    /\ InitNoExport
    /\ InitNoGet
    /\ lpc = [n \in Nodes |-> "unused"]
    /\ restartStaleJobs = FALSE
    /\ InitShared

NextTasks ==
    \/ \E t \in Tasks : TaskAcquire(t)
    \/ \E t \in Tasks : TaskRelease(t)
    \/ \E rejected \in BOOLEAN : RenewalFails(rejected)
    \/ LeaseRunsOut(JobKey)

SpecTasks == InitTasks /\ [][NextTasks]_vars

\* C37: inside one process, a Lock whose token is the stored one keeps its
\* renewal timer until the Lock is released or its own extend fails; the
\* release or the failed renewal of another, older Lock of the same key does
\* not stop it.
HeldAndStored(t) ==
    tpc[t] = "holding" /\ Exists(JobKey) /\ redis[JobKey].token = tlock[t]
C37_NewerLockKeepsRenewing ==
    \A t \in Tasks :
        (HeldAndStored(t) /\ tlock[t] \notin failedRenewals) =>
            activeLocks[Proc][JobKey] = tlock[t]

\* ========================================= shutdown: onModuleDestroy
\* what the shutdown of the lock service leaves alone
notDestroy == <<job, rowLock, pc, verdict, batches, thrown, sweepVars, forceVars,
                restartStaleJobs, domainWrites, hist, attempt, lret, createVars,
                pipeVars, upsertVars, exportVars, getVars, errorVars, withVars,
                savepointVars, streamVars, transportVars, taskVars,
                progressVars>>

\* token && token.startsWith(this.nodeId)
StartsWithNodeId(tok, n) == tok # NoToken /\ tok.node = n

\* For the entry of activeLocks: clearInterval(timeout), then
\* releaseLockByKey(key) begins.
DestroyStart(n) ==
    /\ alive[n] /\ dpc[n] = "running"
    /\ activeLocks[n][JobKey] # NoToken
    /\ activeLocks' = [activeLocks EXCEPT ![n][JobKey] = NoToken]
    /\ dpc' = [dpc EXCEPT ![n] = "get"]
    /\ UNCHANGED <<redis, alive, wlock, lpc, dread>>
    /\ UNCHANGED notDestroy

\* releaseLockByKey: const token = await this.redis.get(lockKey)
DestroyGet(n) ==
    /\ alive[n] /\ dpc[n] = "get"
    /\ dread' = [dread EXCEPT ![n] = IF Exists(JobKey) THEN redis[JobKey].token ELSE NoToken]
    /\ dpc' = [dpc EXCEPT ![n] = "del"]
    /\ UNCHANGED <<lockVars, alive, wlock, lpc>>
    /\ UNCHANGED notDestroy

\* releaseLockByKey: `if (token && token.startsWith(this.nodeId)) await
\* this.redis.del(lockKey)`; then activeLocks.clear() and redis.quit()
DestroyDel(n) ==
    /\ alive[n] /\ dpc[n] = "del"
    /\ redis' = IF StartsWithNodeId(dread[n], n) THEN [redis EXCEPT ![JobKey] = NoKey]
                ELSE redis
    /\ dpc' = [dpc EXCEPT ![n] = "down"]
    /\ alive' = [alive EXCEPT ![n] = FALSE]
    /\ lpc' = [lpc EXCEPT ![n] = "crashed"]
    /\ UNCHANGED <<activeLocks, wlock, dread>>
    /\ UNCHANGED notDestroy

InitDestroy ==
    /\ InitNoPipe
    /\ InitNoUpsert
    /\ InitNoExport
    /\ InitNoGet
    /\ lpc = [n \in Nodes |-> "idle"]
    /\ restartStaleJobs = FALSE
    /\ InitShared

NextDestroy ==
    \/ \E n \in Nodes, r \in {0, DefaultRetries} : LockCall(n, r)
    \/ \E n \in Nodes : LockAttempt(n)
    \/ \E n \in Nodes : LockRelease(n)
    \/ \E n \in Nodes : DestroyStart(n)
    \/ \E n \in Nodes : DestroyGet(n)
    \/ \E n \in Nodes : DestroyDel(n)
    \/ LeaseRunsOut(JobKey)

SpecDestroy == InitDestroy /\ [][NextDestroy]_vars

\* C38: the delete of onModuleDestroy removes a key only when the token
\* stored under it at that moment was issued by the node shutting down.
C38_ShutdownDeletesOnlyOwnKey ==
    [][\A n \in Nodes :
          (dpc[n] = "del" /\ dpc'[n] = "down" /\ redis'[JobKey] # redis[JobKey]) =>
              (Exists(JobKey) /\ redis[JobKey].token.node = n)]_vars

\* ============================== export: progress writes and finalize
\* what the progress writes of an export leave alone
notProgress == <<lockVars, alive, job, rowLock, workerVars, sweepVars, forceVars,
                 restartStaleJobs, domainWrites, hist, lpc, attempt, lret,
                 createVars, pipeVars, upsertVars, exportVars, getVars, errorVars,
                 withVars, savepointVars, streamVars, transportVars, taskVars,
                 destroyVars>>

\* the onMetrics callback of executeExportProcessing: a metrics report that
\* is not the final one sends update(job.id, { exportedRows }), and nothing
\* waits for the promise the callback returns
OnMetrics(writes, totalRows, final) ==
    IF final THEN writes ELSE writes \cup {totalRows}

\* countRecords, then job.totalRows = totalRows and save(job)
ExportCountRecords(total) ==
    /\ xpc = "count"
    /\ xjob' = [xjob EXCEPT !.totalRows = total]
    /\ xpc' = "stream"
    /\ UNCHANGED <<metricsCount, progressWrites>>
    /\ UNCHANGED notProgress

\* MetricsTransform._transform for one chunk of the stream: count++, and a
\* report when logIntervalMs have passed since the last one
MetricsTransformChunk(intervalPassed) ==
    /\ xpc = "stream"
    /\ metricsCount < xjob.totalRows
    /\ metricsCount' = metricsCount + 1
    /\ progressWrites' = IF intervalPassed
                           THEN OnMetrics(progressWrites, metricsCount + 1, FALSE)
                           ELSE progressWrites
    /\ UNCHANGED <<xjob, xpc>>
    /\ UNCHANGED notProgress

\* MetricsTransform._flush at the end of the stream: the final report; the
\* upload resolves
MetricsTransformFlush ==
    /\ xpc = "stream"
    /\ metricsCount = xjob.totalRows
    /\ progressWrites' = OnMetrics(progressWrites, metricsCount, TRUE)
    /\ xpc' = "uploaded"
    /\ UNCHANGED <<xjob, metricsCount>>
    /\ UNCHANGED notProgress

\* exportJobRepository.update(job.id, { exportedRows: metrics.totalRows })
\* reaches the database: the row is updated whatever its status
ProgressWriteApplied(v) ==
    /\ v \in progressWrites
    /\ xjob' = [xjob EXCEPT !.exportedRows = v]
    /\ progressWrites' = progressWrites \ {v}
    /\ UNCHANGED <<xpc, metricsCount>>
    /\ UNCHANGED notProgress

\* finalizeJob(job.id, COMPLETED, { exportedRows: totalRows, ... }): applied
\* to a PROCESSING row only
FinalizeExportCompleted ==
    /\ xpc = "uploaded"
    /\ xjob' = IF xjob.status = PROCESSING
                 THEN [xjob EXCEPT !.status = COMPLETED,
                                   !.exportedRows = xjob.totalRows]
                 ELSE xjob
    /\ xpc' = "done"
    /\ UNCHANGED <<metricsCount, progressWrites>>
    /\ UNCHANGED notProgress

InitProgress ==
    /\ InitNoPipe
    /\ InitNoUpsert
    /\ InitNoExport
    /\ InitNoGet
    /\ lpc = [n \in Nodes |-> "unused"]
    /\ restartStaleJobs = FALSE
    /\ InitShared

NextProgress ==
    \/ \E total \in 0 .. MaxProgressRows : ExportCountRecords(total)
    \/ \E intervalPassed \in BOOLEAN : MetricsTransformChunk(intervalPassed)
    \/ MetricsTransformFlush
    \/ \E v \in 1 .. MaxProgressRows : ProgressWriteApplied(v)
    \/ FinalizeExportCompleted

SpecProgress == InitProgress /\ [][NextProgress]_vars

\* C39: a COMPLETED export job has exported_rows equal to total_rows, in
\* every state from the finalize on, whatever progress writes were started
\* while the file was streamed.
C39_CompletedExportedEqualsTotal ==
    xjob.status = COMPLETED => xjob.exportedRows = xjob.totalRows

\* ------------------------------ create-import: rows of requests that failed
\* a row that exists in PENDING and that no queue entry will ever deliver:
\* the request that inserted it has ended without enqueueing it
NeverEnqueued(r) ==
    /\ importJobs[r].exists
    /\ importJobs[r].status = PENDING
    /\ r \notin importQueue
    /\ cpc[r] = "failed"

\* C40: when a create-import request fails after its row was saved, no
\* PENDING row that was never enqueued is left behind, neither under its id
\* nor under its idempotency key.
C40_NoPendingRowLeftUnqueued ==
    \A r \in Requests :
        ~NeverEnqueued(r)
        /\ (creq[r].idempotencyKey # NoIdemKey =>
               \A i \in FindByIdempotencyKey(creq[r].idempotencyKey) : ~NeverEnqueued(i))

====
